---- MODULE Spec2Model ----
(***************************************************************************)
(* Model of casadi's symbolic scalar SXElement (sx_element.cpp): counted   *)
(* handles to expression nodes, the literal caches and static singletons,  *)
(* and the construction-time simplifier of the arithmetic operators.       *)
(***************************************************************************)
EXTENDS Integers, Sequences, FiniteSets, TLC

\* ------------------------------------------------------------------ bounds
NumHandles == 2      \* user handles (SXElement variables of the program)
MaxDyn == 4          \* nodes that can be allocated beside the 7 singletons
MaxH == 2            \* finite doubles are k/2 with |k| <= MaxH
MaxDepth == 1        \* largest depth passed to is_equal by the IsEqual action
MaxOperandDepth == 0 \* operator nesting of the operands of a stored result
MaxSyms == 1         \* symbols alive while the arithmetic is exercised

\* ------------------------------------------------------------------ doubles
\* A double is a record: a finite value h/2, NaN, +Inf, -Inf, or "big": the
\* integer-valued double 2^32, which lies outside the range of int.
Fin(h) == [t |-> "fin", h |-> h]
NaN == [t |-> "nan", h |-> 0]
PInf == [t |-> "inf", h |-> 0]
MInf == [t |-> "minf", h |-> 0]
Big == [t |-> "big", h |-> 0]
\* the result of an operation that the bounded doubles cannot represent
Unrep == [t |-> "unrep", h |-> 0]

IsFin(d) == d.t = "fin"
Sgn(d) == IF d.t = "fin" THEN (IF d.h > 0 THEN 1 ELSE IF d.h < 0 THEN -1 ELSE 0)
          ELSE IF d.t \in {"inf", "big"} THEN 1
          ELSE IF d.t = "minf" THEN -1 ELSE 0
InfOf(s) == IF s > 0 THEN PInf ELSE MInf
Norm(h) == IF h >= -MaxH /\ h <= MaxH THEN Fin(h) ELSE Unrep

\* operator== of double: NaN equals nothing
deq(a, b) == a.t # "nan" /\ b.t # "nan" /\ a = b

\* IEEE arithmetic on the modelled doubles
dneg(a) == CASE a.t = "fin" -> Fin(-a.h)
             [] a.t = "inf" -> MInf
             [] a.t = "minf" -> PInf
             [] a.t = "nan" -> NaN
             [] OTHER -> Unrep
dadd(a, b) == CASE a.t = "unrep" \/ b.t = "unrep" -> Unrep
                [] a.t = "nan" \/ b.t = "nan" -> NaN
                [] a.t \in {"inf", "minf"} /\ b.t \in {"inf", "minf"} ->
                     IF a.t = b.t THEN a ELSE NaN
                [] a.t \in {"inf", "minf"} -> a
                [] b.t \in {"inf", "minf"} -> b
                [] a.t = "fin" /\ b.t = "fin" -> Norm(a.h + b.h)
                [] OTHER -> Unrep
dsub(a, b) == dadd(a, dneg(b))
dmul(a, b) == CASE a.t = "unrep" \/ b.t = "unrep" -> Unrep
                [] a.t = "nan" \/ b.t = "nan" -> NaN
                [] a.t \in {"inf", "minf"} \/ b.t \in {"inf", "minf"} ->
                     IF Sgn(a) * Sgn(b) = 0 THEN NaN ELSE InfOf(Sgn(a) * Sgn(b))
                [] a.t = "fin" /\ b.t = "fin" ->
                     IF (a.h * b.h) % 2 = 0 THEN Norm((a.h * b.h) \div 2) ELSE Unrep
                [] OTHER -> Unrep
ddiv(a, b) == CASE a.t = "unrep" \/ b.t = "unrep" -> Unrep
                [] a.t = "nan" \/ b.t = "nan" -> NaN
                [] a.t \in {"inf", "minf"} /\ b.t \in {"inf", "minf"} -> NaN
                [] a.t \in {"inf", "minf"} ->
                     IF b.t = "fin" THEN InfOf(Sgn(a) * (IF b.h < 0 THEN -1 ELSE 1))
                     ELSE Unrep
                [] b.t \in {"inf", "minf"} ->
                     IF a.t = "fin" /\ a.h = 0 THEN Fin(0) ELSE Unrep
                [] a.t = "fin" /\ b.t = "fin" ->
                     IF b.h = 0
                     THEN (IF a.h = 0 THEN NaN ELSE InfOf(Sgn(a)))
                     ELSE LET num == IF b.h < 0 THEN -2 * a.h ELSE 2 * a.h
                              den == IF b.h < 0 THEN -b.h ELSE b.h
                          IN IF num % den = 0 THEN Norm(num \div den) ELSE Unrep
                [] OTHER -> Unrep

\* ------------------------------------------------------------------ nodes
ZERO == 1
ONE == 2
TWO == 3
MINUS_ONE == 4
NAN == 5
INF == 6
MINUS_INF == 7
NumStatic == 7
Singletons == 1..NumStatic
NodeIds == 1..(NumStatic + MaxDyn)
DynIds == NodeIds \ Singletons
Handles == 1..NumHandles

ConstKinds == {"ZeroSX", "OneSX", "MinusOneSX", "NanSX", "InfSX", "MinusInfSX",
               "IntegerSX", "RealtypeSX"}

MkNode(k, v, op, d0, d1) ==
  [k |-> k, v |-> v, op |-> op, d0 |-> d0, d1 |-> d1, count |-> 0]
FreeNode == MkNode("free", Fin(0), "", 0, 0)

\* ------------------------------------------------------------------ machine
\* The process state the operators thread through their calls: the node heap,
\* the two constant caches, and bookkeeping of the current call (nodes
\* allocated, deletes of an already deleted node, a result outside the
\* bounds), the switch CasadiOptions::simplification_on_the_fly, ub: the int
\* this build produces for an out-of-range cast, and ubcast: whether the call
\* made such a cast.
Machine(h, ic, rc, sw, ub) ==
  [heap |-> h, icache |-> ic, rcache |-> rc, simp |-> sw, nalloc |-> 0,
   dfree |-> 0, oob |-> FALSE, ub |-> ub, ubcast |-> FALSE, log |-> <<>>]

\* what static_cast<int> of an out-of-range double may produce
UBInts == {-2147483647, 0}

Res(M, r) == [m |-> M, r |-> r]

Live(h, n) == n \in NodeIds /\ h[n].k # "free"

\* operator new: the lowest free address; none left is outside the bounds
FreeIds(M) == {n \in DynIds : M.heap[n].k = "free"}
LowestFree(M) == CHOOSE x \in FreeIds(M) : \A y \in FreeIds(M) : x <= y
\* the new node's child handle (a copy of an operand handle) counts its node
retain_child(M, c) == IF c # 0 THEN [M EXCEPT !.heap[c].count = @ + 1] ELSE M
alloc_at(M, nd, n) ==
  Res(retain_child(retain_child([M EXCEPT !.heap[n] = nd, !.nalloc = @ + 1],
                                nd.d0), nd.d1), n)
alloc(M, nd) ==
  IF FreeIds(M) = {} THEN Res([M EXCEPT !.oob = TRUE], NAN)
  ELSE alloc_at(M, nd, LowestFree(M))

\* node queries (virtual methods of SXNode)
isConstant(h, x) == h[x].k \in ConstKinds
isInteger(h, x) == h[x].k \in {"ZeroSX", "OneSX", "MinusOneSX", "IntegerSX"}
isSymbolic(h, x) == h[x].k = "SymbolicSX"
hasDep(h, x) == h[x].k \in {"UnarySX", "BinarySX"}
isZero(h, x) == h[x].k = "ZeroSX"
isOne(h, x) == h[x].k = "OneSX"
isMinusOne(h, x) == h[x].k = "MinusOneSX"
isOp(h, x, op) == hasDep(h, x) /\ h[x].op = op
getValue(h, x) == h[x].v
getDep(h, x, c) == IF c = 0 THEN h[x].d0 ELSE h[x].d1

\* IntegerSX::create / RealtypeSX::create: look the value up, else allocate
\* and enter it in the cache
cached(cache, key) == {e \in cache : e[1] = key}
enter_integer(a, iv) ==
  IF a.m.oob THEN a ELSE Res([a.m EXCEPT !.icache = @ \cup {<<iv, a.r>>}], a.r)
enter_real(a, val) ==
  IF a.m.oob THEN a ELSE Res([a.m EXCEPT !.rcache = @ \cup {<<val, a.r>>}], a.r)
IntegerSX_create(M, iv) ==
  IF cached(M.icache, iv) # {}
  THEN Res(M, (CHOOSE e \in cached(M.icache, iv) : TRUE)[2])
  ELSE enter_integer(alloc(M, MkNode("IntegerSX", Fin(2 * iv), "", 0, 0)), iv)
RealtypeSX_create(M, val) ==
  IF cached(M.rcache, val) # {}
  THEN Res(M, (CHOOSE e \in cached(M.rcache, val) : TRUE)[2])
  ELSE enter_real(alloc(M, MkNode("RealtypeSX", val, "", 0, 0)), val)

\* static_cast<int>(val): truncation toward zero; undefined when val is NaN,
\* infinite or outside the range of int, where the build's value M.ub is taken
static_cast_int(M, val) ==
  IF val.t = "fin"
  THEN (IF val.h >= 0 THEN val.h \div 2 ELSE -((-val.h) \div 2))
  ELSE M.ub

\* val - intval == 0
is_integer_valued(val, intval) ==
  val.t = "fin" /\ val.h - 2 * intval = 0

\* SXElement::SXElement(double val): the node the new handle references
\* (the caller counts the handle)
literal_node(M, val, intval) ==
  IF is_integer_valued(val, intval)
  THEN (IF intval = 0 THEN Res(M, ZERO)
        ELSE IF intval = 1 THEN Res(M, ONE)
        ELSE IF intval = 2 THEN Res(M, TWO)
        ELSE IF intval = -1 THEN Res(M, MINUS_ONE)
        ELSE IntegerSX_create(M, intval))
  ELSE (IF val.t = "nan" THEN Res(M, NAN)
        ELSE IF val.t \in {"inf", "minf"}
             THEN Res(M, IF Sgn(val) > 0 THEN INF ELSE MINUS_INF)
        ELSE RealtypeSX_create(M, val))
SXElement_double(M, val) ==
  IF val.t = "unrep" THEN Res([M EXCEPT !.oob = TRUE], NAN)
  ELSE literal_node(IF val.t = "fin" THEN M ELSE [M EXCEPT !.ubcast = TRUE],
                    val, static_cast_int(M, val))

RECURSIVE delete_node(_, _), release(_, _)

\* if (--node->count == 0) delete node;
delete_if_zero(M, n) == IF M.heap[n].count = 0 THEN delete_node(M, n) ELSE M
release(M, n) == delete_if_zero([M EXCEPT !.heap[n].count = @ - 1], n)

\* delete node: the destructor removes the node's cache entry and destroys its
\* child handles, deleting every child whose count reaches zero
release_child(M, c) == IF c = 0 THEN M ELSE release(M, c)
free_node(M, n) ==
  [M EXCEPT !.heap[n] = FreeNode,
            !.icache = {e \in @ : e[2] # n},
            !.rcache = {e \in @ : e[2] # n}]
delete_node(M, n) ==
  IF M.heap[n].k = "free" THEN [M EXCEPT !.dfree = @ + 1]
  ELSE release_child(release_child(free_node(M, n), M.heap[n].d0), M.heap[n].d1)

\* node->count++
retain(M, n) == [M EXCEPT !.heap[n].count = @ + 1]

\* SXElement::operator=(const SXElement& scalar) on a handle whose node is
\* node and a source handle that is not stored inside a node
assign(M, node, scalar_node) ==
  IF node = scalar_node THEN M
  ELSE retain(release(M, node), scalar_node)

\* SXElement::assignNoDelete
assignNoDelete(M, node, scalar_node) ==
  IF node = scalar_node THEN M
  ELSE retain([M EXCEPT !.heap[node].count = @ - 1], scalar_node)

\* ------------------------------------------------------------------ operations
\* depth of the structural comparisons made by the rewrite rules
eq_depth_ == 1

UnaryOps == {"NEG", "INV", "SQ", "SQRT", "FABS", "NOT", "SIN", "COS",
             "SINH", "COSH", "TANH", "ASINH", "ACOSH", "ATANH"}
BinaryOps == {"ADD", "SUB", "MUL", "DIV"}

\* casadi_math<double>::fun on a constant operand (op(x)) or two (x op y)
fun1(op, a) ==
  CASE op = "NEG" -> dneg(a)
    [] op = "INV" -> ddiv(Fin(2), a)
    [] op = "SQ" -> dmul(a, a)
    [] op = "FABS" -> IF Sgn(a) < 0 THEN dneg(a) ELSE a
    [] op = "NOT" -> IF a.t = "fin" /\ a.h = 0 THEN Fin(2) ELSE Fin(0)
    [] op = "SQRT" ->
         IF a.t = "nan" \/ Sgn(a) < 0 THEN NaN
         ELSE IF a.t = "inf" THEN PInf
         ELSE IF a.t = "fin" /\ a.h \in {0, 2} THEN a
         ELSE IF a.t = "fin" /\ a.h = 8 THEN Fin(4)
         ELSE Unrep
    [] op \in {"SIN", "SINH", "TANH", "ASINH", "ATANH"} ->
         IF a.t = "nan" THEN NaN
         ELSE IF a.t = "fin" /\ a.h = 0 THEN Fin(0) ELSE Unrep
    [] op \in {"COS", "COSH"} ->
         IF a.t = "nan" THEN NaN
         ELSE IF a.t = "fin" /\ a.h = 0 THEN Fin(2) ELSE Unrep
    [] op = "ACOSH" ->
         IF a.t = "nan" THEN NaN
         ELSE IF a.t = "fin" /\ a.h = 2 THEN Fin(0) ELSE Unrep
    [] OTHER -> Unrep
fun2(op, a, b) ==
  CASE op = "ADD" -> dadd(a, b)
    [] op = "SUB" -> dsub(a, b)
    [] op = "MUL" -> dmul(a, b)
    [] op = "DIV" -> ddiv(a, b)
    [] OTHER -> Unrep

\* UnarySX::create / BinarySX::create: constant operands are folded to a
\* literal, anything else allocates one node holding its operands
UnarySX_create(M, op, x) ==
  IF isConstant(M.heap, x)
  THEN SXElement_double(M, fun1(op, getValue(M.heap, x)))
  ELSE alloc(M, MkNode("UnarySX", Fin(0), op, x, 0))
BinarySX_create(M, op, x, y) ==
  IF isConstant(M.heap, x) /\ isConstant(M.heap, y)
  THEN SXElement_double(M, fun2(op, getValue(M.heap, x), getValue(M.heap, y)))
  ELSE alloc(M, MkNode("BinarySX", Fin(0), op, x, y))

\* SXElement::zz_is_equal and the node-level comparison it delegates to
RECURSIVE zz_is_equal(_, _, _, _), node_is_equal(_, _, _, _)
\* zz_is_equal delegating at depth 0 too (depth >= 0 for depth > 0)
zz_is_equal_at_zero(h, x, ex, depth) ==
  IF x = ex THEN TRUE
  ELSE IF depth >= 0 THEN node_is_equal(h, x, ex, depth)
  ELSE FALSE

zz_is_equal(h, x, ex, depth) ==
  IF x = ex THEN TRUE
  ELSE IF depth > 0 THEN node_is_equal(h, x, ex, depth)
  ELSE FALSE
node_is_equal(h, x, ex, depth) ==
  CASE isConstant(h, x) -> isConstant(h, ex) /\ deq(getValue(h, x), getValue(h, ex))
    [] h[x].k = "UnarySX" ->
         /\ h[ex].k = "UnarySX" /\ h[ex].op = h[x].op
         /\ zz_is_equal(h, h[ex].d0, h[x].d0, depth - 1)
    [] h[x].k = "BinarySX" ->
         /\ h[ex].k = "BinarySX" /\ h[ex].op = h[x].op
         /\ zz_is_equal(h, h[ex].d0, h[x].d0, depth - 1)
         /\ zz_is_equal(h, h[ex].d1, h[x].d1, depth - 1)
    [] OTHER -> FALSE

\* the number of handle-level comparisons one call of zz_is_equal makes
RECURSIVE is_equal_calls(_, _, _, _)
is_equal_calls(h, x, ex, depth) ==
  IF x = ex \/ depth <= 0 THEN 1
  ELSE CASE h[x].k = "UnarySX" /\ h[ex].k = "UnarySX" /\ h[ex].op = h[x].op ->
              1 + is_equal_calls(h, h[ex].d0, h[x].d0, depth - 1)
         [] h[x].k = "BinarySX" /\ h[ex].k = "BinarySX" /\ h[ex].op = h[x].op ->
              1 + is_equal_calls(h, h[ex].d0, h[x].d0, depth - 1)
                + (IF zz_is_equal(h, h[ex].d0, h[x].d0, depth - 1)
                   THEN is_equal_calls(h, h[ex].d1, h[x].d1, depth - 1) ELSE 0)
         [] OTHER -> 1

\* nesting of operators in the expression at node n
RECURSIVE expr_depth(_, _)
expr_depth(h, n) ==
  IF n = 0 \/ ~hasDep(h, n) THEN 0
  ELSE LET d0 == expr_depth(h, h[n].d0)
           d1 == expr_depth(h, h[n].d1)
       IN 1 + (IF d0 >= d1 THEN d0 ELSE d1)

\* the levels of the expression at node n: one for a leaf, none when the
\* call has no such operand
levels(h, n) == IF n = 0 THEN 0 ELSE 1 + expr_depth(h, n)

\* the call of fn on a (and b) made by a constructor that was called on x
\* (and y), entered in the record M.log of the calls made
Redispatch(M, x, y, fn, a, b) ==
  [M EXCEPT !.log =
     Append(@, [fn |-> fn, x |-> x, y |-> y, a |-> a, b |-> b,
                was |-> levels(M.heap, x) + levels(M.heap, y),
                now |-> levels(M.heap, a) + levels(M.heap, b),
                constant_first |-> isConstant(M.heap, a),
                constant_second |-> b # 0 /\ isConstant(M.heap, b)])]

\* SXElement::operator-()
operator_neg(M, x) ==
  IF isOp(M.heap, x, "NEG") THEN Res(M, getDep(M.heap, x, 0))
  ELSE IF isZero(M.heap, x) THEN SXElement_double(M, Fin(0))
  ELSE IF isMinusOne(M.heap, x) THEN SXElement_double(M, Fin(2))
  ELSE IF isOne(M.heap, x) THEN SXElement_double(M, Fin(-2))
  ELSE UnarySX_create(M, "NEG", x)

\* SXElement::inv
inv(M, x) ==
  IF isOp(M.heap, x, "INV") THEN Res(M, getDep(M.heap, x, 0))
  ELSE UnarySX_create(M, "INV", x)

\* SXElement::sq
RECURSIVE sq(_, _)
sq(M, x) ==
  IF isOp(M.heap, x, "SQRT") THEN Res(M, getDep(M.heap, x, 0))
  ELSE IF isOp(M.heap, x, "NEG")
    THEN sq(Redispatch(M, x, 0, "sq", getDep(M.heap, x, 0), 0), getDep(M.heap, x, 0))
  ELSE UnarySX_create(M, "SQ", x)

\* SXElement::zz_abs
zz_abs(M, x) ==
  IF isOp(M.heap, x, "FABS") \/ isOp(M.heap, x, "SQ") THEN Res(M, x)
  ELSE UnarySX_create(M, "FABS", x)

\* SXElement::zz_sqrt
zz_sqrt(M, x) ==
  IF isOp(M.heap, x, "SQ") THEN zz_abs(M, getDep(M.heap, x, 0))
  ELSE UnarySX_create(M, "SQRT", x)

\* SXElement::zz_not
zz_not(M, x) ==
  IF isOp(M.heap, x, "NOT") THEN Res(M, getDep(M.heap, x, 0))
  ELSE UnarySX_create(M, "NOT", x)

\* SXElement::zz_sin, zz_cos
zz_sin(M, x) == UnarySX_create(M, "SIN", x)
zz_cos(M, x) == UnarySX_create(M, "COS", x)

\* SXElement::zz_sinh, zz_cosh, zz_tanh, zz_atanh, zz_acosh, zz_asinh
zz_sinh(M, x) ==
  IF isZero(M.heap, x) THEN SXElement_double(M, Fin(0))
  ELSE UnarySX_create(M, "SINH", x)
zz_cosh(M, x) ==
  IF isZero(M.heap, x) THEN SXElement_double(M, Fin(2))
  ELSE UnarySX_create(M, "COSH", x)
zz_tanh(M, x) ==
  IF isZero(M.heap, x) THEN SXElement_double(M, Fin(0))
  ELSE UnarySX_create(M, "TANH", x)
zz_atanh(M, x) ==
  IF isZero(M.heap, x) THEN SXElement_double(M, Fin(0))
  ELSE UnarySX_create(M, "ATANH", x)
zz_acosh(M, x) ==
  IF isOne(M.heap, x) THEN SXElement_double(M, Fin(0))
  ELSE UnarySX_create(M, "ACOSH", x)
zz_asinh(M, x) ==
  IF isZero(M.heap, x) THEN SXElement_double(M, Fin(0))
  ELSE UnarySX_create(M, "ASINH", x)

\* a.getValue() * b.getValue() == 1, and getValue() == c, on constant nodes
product_is_one(h, a, b) ==
  LET va == getValue(h, a)
      vb == getValue(h, b)
  IN va.t = "fin" /\ vb.t = "fin" /\ va.h * vb.h = 4
value_is(h, a, c) == isConstant(h, a) /\ deq(getValue(h, a), c)

\* SXElement::isDoubled
isDoubled(h, x) ==
  isOp(h, x, "ADD") /\ zz_is_equal(h, getDep(h, x, 0), getDep(h, x, 1), eq_depth_)

RECURSIVE zz_plus(_, _, _), zz_minus(_, _, _), zz_times(_, _, _), zz_rdivide(_, _, _)

\* the calls a constructor called on x and y makes: -a, a.inv(), a.sq(),
\* a + b, a - b, a * b, a / b
neg_via(M, x, y, a) == operator_neg(Redispatch(M, x, y, "operator-", a, 0), a)
inv_via(M, x, y, a) == inv(Redispatch(M, x, y, "inv", a, 0), a)
sq_via(M, x, y, a) == sq(Redispatch(M, x, y, "sq", a, 0), a)
plus_via(M, x, y, a, b) == zz_plus(Redispatch(M, x, y, "zz_plus", a, b), a, b)
minus_via(M, x, y, a, b) == zz_minus(Redispatch(M, x, y, "zz_minus", a, b), a, b)
times_via(M, x, y, a, b) == zz_times(Redispatch(M, x, y, "zz_times", a, b), a, b)
rdivide_via(M, x, y, a, b) ==
  zz_rdivide(Redispatch(M, x, y, "zz_rdivide", a, b), a, b)

\* an operator applied to the result R of a nested call: -R, a - R, a * R,
\* a / R, R / y
neg_of(x, y, R) == neg_via(R.m, x, y, R.r)
minus_of(x, y, a, R) == minus_via(R.m, x, y, a, R.r)
times_of(x, y, a, R) == times_via(R.m, x, y, a, R.r)
rdivide_of(x, y, a, R) == rdivide_via(R.m, x, y, a, R.r)
create_div_of(R, y) == BinarySX_create(R.m, "DIV", R.r, y)

\* SXElement::zz_plus
zz_plus(M, x, y) ==
  LET h == M.heap
  IN IF ~M.simp THEN BinarySX_create(M, "ADD", x, y)
     ELSE IF isZero(h, x) THEN Res(M, y)
     ELSE IF isZero(h, y) THEN Res(M, x)
     ELSE IF isOp(h, y, "NEG")
       THEN minus_of(x, y, x, neg_via(M, x, y, y))
     ELSE IF isOp(h, x, "NEG") THEN minus_via(M, x, y, y, getDep(h, x, 0))
     ELSE IF /\ isOp(h, x, "MUL") /\ isOp(h, y, "MUL")
             /\ value_is(h, getDep(h, x, 0), Fin(1))
             /\ value_is(h, getDep(h, y, 0), Fin(1))
             /\ zz_is_equal(h, getDep(h, y, 1), getDep(h, x, 1), eq_depth_)
       THEN Res(M, getDep(h, x, 1))
     ELSE IF /\ isOp(h, x, "DIV") /\ isOp(h, y, "DIV")
             /\ value_is(h, getDep(h, x, 1), Fin(4))
             /\ value_is(h, getDep(h, y, 1), Fin(4))
             /\ zz_is_equal(h, getDep(h, y, 0), getDep(h, x, 0), eq_depth_)
       THEN Res(M, getDep(h, x, 0))
     ELSE IF isOp(h, x, "SUB") /\ zz_is_equal(h, getDep(h, x, 1), y, eq_depth_)
       THEN Res(M, getDep(h, x, 0))
     ELSE IF isOp(h, y, "SUB") /\ zz_is_equal(h, x, getDep(h, y, 1), eq_depth_)
       THEN Res(M, getDep(h, y, 0))
     ELSE IF /\ isOp(h, x, "SQ") /\ isOp(h, y, "SQ")
             /\ \/ isOp(h, getDep(h, x, 0), "SIN") /\ isOp(h, getDep(h, y, 0), "COS")
                \/ isOp(h, getDep(h, x, 0), "COS") /\ isOp(h, getDep(h, y, 0), "SIN")
             /\ zz_is_equal(h, getDep(h, getDep(h, x, 0), 0),
                            getDep(h, getDep(h, y, 0), 0), eq_depth_)
       THEN SXElement_double(M, Fin(2))
     ELSE BinarySX_create(M, "ADD", x, y)

\* zz_minus without the test of the switch before its first rules
zz_minus_no_switch(M, x, y) ==
  LET h == M.heap
  IN IF isZero(h, y) THEN Res(M, x)
     ELSE IF isZero(h, x) THEN operator_neg(M, y)
     ELSE IF zz_is_equal(h, x, y, eq_depth_) THEN SXElement_double(M, Fin(0))
     ELSE BinarySX_create(M, "SUB", x, y)

\* zz_minus that passes the negation on: x - (-y) -> x + (-y)
zz_minus_keeps_negation(M, x, y) ==
  LET h == M.heap
  IN IF ~M.simp THEN BinarySX_create(M, "SUB", x, y)
     ELSE IF isZero(h, y) THEN Res(M, x)
     ELSE IF isZero(h, x) THEN neg_via(M, x, y, y)
     ELSE IF zz_is_equal(h, x, y, eq_depth_) THEN SXElement_double(M, Fin(0))
     ELSE IF isOp(h, y, "NEG") THEN plus_via(M, x, y, x, y)
     ELSE BinarySX_create(M, "SUB", x, y)

\* SXElement::zz_minus
zz_minus(M, x, y) ==
  LET h == M.heap
  IN IF ~M.simp THEN BinarySX_create(M, "SUB", x, y)
     ELSE IF isZero(h, y) THEN Res(M, x)
     ELSE IF isZero(h, x) THEN neg_via(M, x, y, y)
     ELSE IF zz_is_equal(h, x, y, eq_depth_) THEN SXElement_double(M, Fin(0))
     ELSE IF isOp(h, y, "NEG") THEN plus_via(M, x, y, x, getDep(h, y, 0))
     ELSE IF isOp(h, x, "ADD") /\ zz_is_equal(h, getDep(h, x, 1), y, eq_depth_)
       THEN Res(M, getDep(h, x, 0))
     ELSE IF isOp(h, x, "ADD") /\ zz_is_equal(h, getDep(h, x, 0), y, eq_depth_)
       THEN Res(M, getDep(h, x, 1))
     ELSE IF isOp(h, y, "ADD") /\ zz_is_equal(h, x, getDep(h, y, 1), eq_depth_)
       THEN neg_via(M, x, y, getDep(h, y, 0))
     ELSE IF isOp(h, y, "ADD") /\ zz_is_equal(h, x, getDep(h, y, 0), eq_depth_)
       THEN neg_via(M, x, y, getDep(h, y, 1))
     ELSE IF isOp(h, x, "NEG") THEN neg_of(x, y, plus_via(M, x, y, getDep(h, x, 0), y))
     ELSE BinarySX_create(M, "SUB", x, y)

\* zz_times with its rewrite rules left out
zz_times_no_rules(M, x, y) == BinarySX_create(M, "MUL", x, y)

\* SXElement::zz_times
zz_times(M, x, y) ==
  LET h == M.heap
  IN IF ~M.simp THEN BinarySX_create(M, "MUL", x, y)
     ELSE IF zz_is_equal(h, y, x, eq_depth_) THEN sq_via(M, x, y, x)
     ELSE IF ~isConstant(h, x) /\ isConstant(h, y) THEN times_via(M, x, y, y, x)
     ELSE IF isZero(h, x) \/ isZero(h, y) THEN SXElement_double(M, Fin(0))
     ELSE IF isOne(h, x) THEN Res(M, y)
     ELSE IF isOne(h, y) THEN Res(M, x)
     ELSE IF isMinusOne(h, y) THEN neg_via(M, x, y, x)
     ELSE IF isMinusOne(h, x) THEN neg_via(M, x, y, y)
     ELSE IF isOp(h, y, "INV") THEN rdivide_of(x, y, x, inv_via(M, x, y, y))
     ELSE IF isOp(h, x, "INV") THEN rdivide_of(x, y, y, inv_via(M, x, y, x))
     ELSE IF /\ isConstant(h, x) /\ isOp(h, y, "MUL")
             /\ isConstant(h, getDep(h, y, 0))
             /\ product_is_one(h, x, getDep(h, y, 0))
       THEN Res(M, getDep(h, y, 1))
     ELSE IF /\ isConstant(h, x) /\ isOp(h, y, "DIV")
             /\ isConstant(h, getDep(h, y, 1))
             /\ deq(getValue(h, x), getValue(h, getDep(h, y, 1)))
       THEN Res(M, getDep(h, y, 0))
     ELSE IF isOp(h, x, "DIV") /\ zz_is_equal(h, getDep(h, x, 1), y, eq_depth_)
       THEN Res(M, getDep(h, x, 0))
     ELSE IF isOp(h, y, "DIV") /\ zz_is_equal(h, getDep(h, y, 1), x, eq_depth_)
       THEN Res(M, getDep(h, y, 0))
     ELSE IF isOp(h, x, "NEG") THEN neg_of(x, y, times_via(M, x, y, getDep(h, x, 0), y))
     ELSE IF isOp(h, y, "NEG") THEN neg_of(x, y, times_via(M, x, y, x, getDep(h, y, 0)))
     ELSE BinarySX_create(M, "MUL", x, y)

\* zz_rdivide with the test for equal terms moved before the test for a zero
\* denominator
zz_rdivide_equal_first(M, x, y) ==
  LET h == M.heap
  IN IF ~M.simp THEN BinarySX_create(M, "DIV", x, y)
     ELSE IF zz_is_equal(h, x, y, eq_depth_) THEN SXElement_double(M, Fin(2))
     ELSE IF isZero(h, y) THEN Res(M, NAN)
     ELSE IF isZero(h, x) THEN SXElement_double(M, Fin(0))
     ELSE IF isOne(h, y) THEN Res(M, x)
     ELSE IF isMinusOne(h, y) THEN operator_neg(M, x)
     ELSE BinarySX_create(M, "DIV", x, y)

\* SXElement::zz_rdivide
zz_rdivide(M, x, y) ==
  LET h == M.heap
  IN IF ~M.simp THEN BinarySX_create(M, "DIV", x, y)
     ELSE IF isZero(h, y) THEN Res(M, NAN)
     ELSE IF isZero(h, x) THEN SXElement_double(M, Fin(0))
     ELSE IF isOne(h, y) THEN Res(M, x)
     ELSE IF isMinusOne(h, y) THEN neg_via(M, x, y, x)
     ELSE IF zz_is_equal(h, x, y, eq_depth_) THEN SXElement_double(M, Fin(2))
     ELSE IF isDoubled(h, x) /\ zz_is_equal(h, y, TWO, 0)
       THEN Res(M, getDep(h, x, 0))
     ELSE IF isOp(h, x, "MUL") /\ zz_is_equal(h, y, getDep(h, x, 0), eq_depth_)
       THEN Res(M, getDep(h, x, 1))
     ELSE IF isOp(h, x, "MUL") /\ zz_is_equal(h, y, getDep(h, x, 1), eq_depth_)
       THEN Res(M, getDep(h, x, 0))
     ELSE IF isOne(h, x) THEN inv_via(M, x, y, y)
     ELSE IF isOp(h, y, "INV") THEN times_of(x, y, x, inv_via(M, x, y, y))
     ELSE IF isDoubled(h, x) /\ isDoubled(h, y)
       THEN rdivide_via(M, x, y, getDep(h, x, 0), getDep(h, y, 0))
     ELSE IF /\ isConstant(h, y) /\ isOp(h, x, "DIV")
             /\ isConstant(h, getDep(h, x, 1))
             /\ product_is_one(h, y, getDep(h, x, 1))
       THEN Res(M, getDep(h, x, 0))
     ELSE IF isOp(h, y, "MUL") /\ zz_is_equal(h, getDep(h, y, 1), x, eq_depth_)
       THEN create_div_of(SXElement_double(M, Fin(2)), getDep(h, y, 0))
     ELSE IF isOp(h, x, "NEG") /\ zz_is_equal(h, getDep(h, x, 0), y, eq_depth_)
       THEN SXElement_double(M, Fin(-2))
     ELSE IF isOp(h, y, "NEG") /\ zz_is_equal(h, getDep(h, y, 0), x, eq_depth_)
       THEN SXElement_double(M, Fin(-2))
     ELSE IF /\ isOp(h, y, "NEG") /\ isOp(h, x, "NEG")
             /\ zz_is_equal(h, getDep(h, x, 0), getDep(h, y, 0), eq_depth_)
       THEN SXElement_double(M, Fin(2))
     ELSE IF isOp(h, x, "DIV") /\ zz_is_equal(h, y, getDep(h, x, 0), eq_depth_)
       THEN inv_via(M, x, y, getDep(h, x, 1))
     ELSE IF isOp(h, x, "NEG") THEN neg_of(x, y, rdivide_via(M, x, y, getDep(h, x, 0), y))
     ELSE IF isOp(h, y, "NEG") THEN neg_of(x, y, rdivide_via(M, x, y, x, getDep(h, y, 0)))
     ELSE BinarySX_create(M, "DIV", x, y)

\* ------------------------------------------------------------------ state
VARIABLES
  heap,      \* node id -> node (kind, value, operator, children, count)
  icache,    \* IntegerSX::cached_constants_ : pairs <<int, node>>
  rcache,    \* RealtypeSX::cached_constants_ : pairs <<double, node>>
  handles,   \* user handle -> node it references, 0 when not constructed
  simp,      \* CasadiOptions::simplification_on_the_fly
  dfree,     \* deletes of a node that was already deleted (capped at 1)
  last       \* what the last operation was given and what it returned

vars == <<heap, icache, rcache, handles, simp, dfree, last>>

\* the literals the program constructs handles from
Literals == {Fin(0), Fin(2), Fin(4), Fin(-2), Fin(6), Fin(1), NaN, PInf, MInf, Big}
\* the literals the arithmetic is exercised on
OpLiterals == {Fin(0), Fin(2), Fin(4), Fin(-2), NaN}
\* the literals used with the switch off
OffLiterals == {Fin(0), Fin(2), Fin(1)}

NoLast == [act |-> "none", a |-> 0, b |-> 0, r |-> 0, rn |-> FreeNode,
           n |-> 0, v |-> Fin(0), depth |-> 0, res |-> FALSE, calls |-> <<>>]

\* the static members of casadi_limits<SXElement>, each holding one handle
StaticNode(n) ==
  CASE n = ZERO -> MkNode("ZeroSX", Fin(0), "", 0, 0)
    [] n = ONE -> MkNode("OneSX", Fin(2), "", 0, 0)
    [] n = TWO -> MkNode("IntegerSX", Fin(4), "", 0, 0)
    [] n = MINUS_ONE -> MkNode("MinusOneSX", Fin(-2), "", 0, 0)
    [] n = NAN -> MkNode("NanSX", NaN, "", 0, 0)
    [] n = INF -> MkNode("InfSX", PInf, "", 0, 0)
    [] n = MINUS_INF -> MkNode("MinusInfSX", MInf, "", 0, 0)

Init ==
  /\ heap = [n \in NodeIds |->
               IF n \in Singletons THEN [StaticNode(n) EXCEPT !.count = 1]
               ELSE FreeNode]
  /\ icache = {<<2, TWO>>}
  /\ rcache = {}
  /\ handles = [h \in Handles |-> 0]
  /\ simp = TRUE
  /\ dfree = 0
  /\ last = NoLast

Cur(ub) == Machine(heap, icache, rcache, simp, ub)

\* the outcomes of a call: one when it makes no out-of-range cast, else one
\* for each value such a cast may produce
Outcomes(F(_)) ==
  UNION {IF R0.m.ubcast THEN {F(Cur(ub)) : ub \in UBInts} ELSE {R0} :
           R0 \in {F(Cur(0))}}

\* the handle is constructed and its node has not been deleted under it
Usable(h) == handles[h] # 0 /\ Live(heap, handles[h])

\* the end of a statement: every node left without a handle by the
\* temporaries of the statement is deleted
RECURSIVE sweep(_)
sweep(M) ==
  LET dead == {n \in DynIds : M.heap[n].k # "free" /\ M.heap[n].count = 0}
  IN IF dead = {} THEN M
     ELSE sweep(delete_node(M, CHOOSE x \in dead : \A y \in dead : x <= y))

\* write the machine back, with handle h now referencing node n
Commit(M, h, n, l) ==
  /\ ~M.oob
  /\ heap' = M.heap
  /\ icache' = M.icache
  /\ rcache' = M.rcache
  /\ handles' = [handles EXCEPT ![h] = n]
  /\ dfree' = IF dfree + M.dfree > 0 THEN 1 ELSE 0
  /\ last' = l
  /\ UNCHANGED simp

\* the new handle h counts and references the node returned as R
Hold(R, h, l) == Commit(retain(R.m, R.r), h, R.r, l)

\* SXElement::SXElement() without its node->count++
Construct_nocount(h) ==
  /\ handles[h] = 0
  /\ Commit(Cur(0), h, NAN, NoLast)

\* SXElement::SXElement()
Construct(h) ==
  /\ handles[h] = 0
  /\ Commit(retain(Cur(0), NAN), h, NAN, NoLast)

\* SXElement::SXElement(double val)
ConstructLiteral(h, val) ==
  /\ handles[h] = 0
  /\ LET F(M) == SXElement_double(M, val)
     IN \E R \in Outcomes(F) :
          Commit(retain(R.m, R.r), h, R.r,
                 [NoLast EXCEPT !.act = "literal", !.v = val, !.r = R.r])

\* SXElement::sym
Sym(h) ==
  /\ handles[h] = 0
  /\ Hold(alloc(Cur(0), MkNode("SymbolicSX", Fin(0), "", 0, 0)), h, NoLast)

\* SXElement::SXElement(const SXElement& scalar)
Copy(h, g) ==
  /\ handles[h] = 0 /\ Usable(g)
  /\ Commit(retain(Cur(0), handles[g]), h, handles[g], NoLast)

\* SXElement::~SXElement
Destroy(h) ==
  /\ Usable(h)
  /\ Commit(release(Cur(0), handles[h]), h, 0, NoLast)

\* SXElement::operator=(const SXElement&), the source a user handle
Assign(h, g) ==
  /\ Usable(h) /\ Usable(g)
  /\ Commit(assign(Cur(0), handles[h], handles[g]), h, handles[g],
            [NoLast EXCEPT !.act = "assign", !.a = handles[h], !.b = handles[g],
                           !.r = handles[g]])

\* SXElement::operator=(double): *this = SXElement(scalar)
AssignLiteral(h, val) ==
  /\ Usable(h)
  /\ LET F(M) == SXElement_double(M, val)
     IN \E R \in Outcomes(F) :
          Commit(release(assign(retain(R.m, R.r), handles[h], R.r), R.r), h, R.r,
                 [NoLast EXCEPT !.act = "literal", !.v = val, !.r = R.r])

\* CasadiOptions::simplification_on_the_fly = b
SetSimplification(b) ==
  /\ simp' = b
  /\ last' = NoLast
  /\ UNCHANGED <<heap, icache, rcache, handles, dfree>>

\* SXElement::operator=(const SXElement& scalar) where scalar is the child
\* handle c stored inside the node of handle g (h = g->dep(c)).  The code
\* releases the old node of h before it reads scalar.node; when that
\* release deletes the node that stores scalar, the read is of freed
\* memory: it yields the child the slot held, or the NaN singleton the
\* destructor parked in it (assignNoDelete), and the count it then
\* increments may itself lie in freed memory.
AssignFrom(h, node, owner, src, M1) ==
  IF node = src
  THEN Commit(Cur(0), h, node,
              [NoLast EXCEPT !.act = "assign_dep", !.a = node, !.b = src,
                             !.r = node, !.res = TRUE])
  ELSE \E read \in (IF Live(M1.heap, owner) THEN {src} ELSE {src, NAN}) :
         Commit(IF Live(M1.heap, read) THEN retain(M1, read) ELSE M1,
                h, read,
                [NoLast EXCEPT !.act = "assign_dep", !.a = node, !.b = src,
                               !.r = read, !.res = FALSE])
AssignDep(h, g, c) ==
  /\ Usable(h) /\ Usable(g)
  /\ hasDep(heap, handles[g])
  /\ getDep(heap, handles[g], c) # 0
  /\ AssignFrom(h, handles[h], handles[g], getDep(heap, handles[g], c),
                release(Cur(0), handles[h]))

\* the operator functions of SXElement, by name
apply2(op, M, x, y) ==
  CASE op = "plus" -> zz_plus(M, x, y)
    [] op = "minus" -> zz_minus(M, x, y)
    [] op = "times" -> zz_times(M, x, y)
    [] op = "rdivide" -> zz_rdivide(M, x, y)
apply1(op, M, x) ==
  CASE op = "neg" -> operator_neg(M, x)
    [] op = "inv" -> inv(M, x)
    [] op = "sq" -> sq(M, x)
    [] op = "sqrt" -> zz_sqrt(M, x)
    [] op = "abs" -> zz_abs(M, x)
    [] op = "not" -> zz_not(M, x)
    [] op = "sin" -> zz_sin(M, x)
    [] op = "cos" -> zz_cos(M, x)
    [] op = "sinh" -> zz_sinh(M, x)
    [] op = "cosh" -> zz_cosh(M, x)
    [] op = "tanh" -> zz_tanh(M, x)
    [] op = "atanh" -> zz_atanh(M, x)
    [] op = "acosh" -> zz_acosh(M, x)
    [] op = "asinh" -> zz_asinh(M, x)

ArithOps == {"plus", "minus", "times", "rdivide"}
UnaryFns == {"neg", "inv", "sq", "sqrt", "abs", "not", "sin", "cos", "sinh",
             "cosh", "tanh", "atanh", "acosh", "asinh"}

\* the statement  h = <expression>  (or  SXElement h = <expression>  when h is
\* not constructed yet): the temporary returned by the expression holds its
\* node, is assigned to h, and dies with the other temporaries
Store(R, h, l) ==
  Commit(sweep(IF handles[h] = 0 THEN retain(R.m, R.r)
               ELSE release(assign(retain(R.m, R.r), handles[h], R.r), R.r)),
         h, R.r, l)

\* h = a op b
BinOp(h, a, b, op) ==
  /\ Usable(a) /\ Usable(b)
  /\ handles[h] = 0 \/ Usable(h)
  /\ expr_depth(heap, handles[a]) <= MaxOperandDepth
  /\ expr_depth(heap, handles[b]) <= MaxOperandDepth
  /\ LET F(M) == apply2(op, M, handles[a], handles[b])
     IN \E R \in Outcomes(F) :
          Store(R, h,
                NoLast)

\* h = op(a)
UnOp(h, a, op) ==
  /\ Usable(a)
  /\ handles[h] = 0 \/ Usable(h)
  /\ expr_depth(heap, handles[a]) <= MaxOperandDepth
  /\ LET F(M) == apply1(op, M, handles[a])
     IN \E R \in Outcomes(F) :
          Store(R, h,
                NoLast)

\* the expression statement  a op b;  whose result is a temporary: it holds
\* its node until the end of the statement.  Recorded: the operand nodes, the
\* node returned (r) and its contents (rn), and the nodes the call allocated.
Finish(M, R, l) ==
  /\ ~M.oob
  /\ heap' = M.heap /\ icache' = M.icache /\ rcache' = M.rcache
  /\ dfree' = IF dfree + M.dfree > 0 THEN 1 ELSE 0
  /\ last' = [l EXCEPT !.r = R.r, !.rn = [R.m.heap[R.r] EXCEPT !.count = 0],
                       !.n = R.m.nalloc, !.calls = R.m.log]
  /\ UNCHANGED <<handles, simp>>
Discard(R, l) == Finish(sweep(release(retain(R.m, R.r), R.r)), R, l)

EvalBin(a, b, op) ==
  /\ Usable(a) /\ Usable(b)
  /\ LET F(M) == apply2(op, M, handles[a], handles[b])
     IN \E R \in Outcomes(F) :
          Discard(R, [NoLast EXCEPT !.act = op, !.a = handles[a], !.b = handles[b]])

EvalUn(a, op) ==
  /\ Usable(a)
  /\ LET F(M) == apply1(op, M, handles[a])
     IN \E R \in Outcomes(F) :
          Discard(R, [NoLast EXCEPT !.act = op, !.a = handles[a]])

\* is_equal(a, b, depth)
IsEqual(a, b, depth) ==
  /\ Usable(a) /\ Usable(b)
  /\ last' = [NoLast EXCEPT !.act = "is_equal", !.a = handles[a], !.b = handles[b],
                            !.depth = depth,
                            !.res = zz_is_equal(heap, handles[a], handles[b], depth),
                            !.n = is_equal_calls(heap, handles[a], handles[b], depth)]
  /\ UNCHANGED <<heap, icache, rcache, handles, simp, dfree>>

\* SXElement::__nonzero__ without its isConstant test
nonzero_unchecked(h, x) == [err |-> FALSE, res |-> ~isZero(h, x)]

\* SXElement::__nonzero__: the truth value, or the casadi_error
nonzero(h, x) ==
  IF isConstant(h, x) THEN [err |-> FALSE, res |-> ~isZero(h, x)]
  ELSE [err |-> TRUE, res |-> FALSE]

\* if (a) ... : the conversion of the handle a to bool
Nonzero(a) ==
  /\ Usable(a)
  /\ last' = [NoLast EXCEPT !.act = IF nonzero(heap, handles[a]).err
                                    THEN "nonzero_error" ELSE "nonzero",
                            !.a = handles[a],
                            !.res = nonzero(heap, handles[a]).res]
  /\ UNCHANGED <<heap, icache, rcache, handles, simp, dfree>>

NumSyms == Cardinality({n \in NodeIds : heap[n].k = "SymbolicSX"})

\* the handle operations, with the sum of two handles to build nodes that
\* hold child handles
Next ==
  \/ \E h \in Handles : Construct(h)
  \/ \E h \in Handles, val \in Literals : ConstructLiteral(h, val)
  \/ \E h \in Handles : Sym(h)
  \/ \E h, g \in Handles : Copy(h, g)
  \/ \E h \in Handles : Destroy(h)
  \/ \E h, g \in Handles : Assign(h, g)
  \/ \E h, g \in Handles, c \in {0, 1} : AssignDep(h, g, c)
  \/ \E h \in Handles, val \in Literals : AssignLiteral(h, val)
  \/ \E h, a, b \in Handles : BinOp(h, a, b, "plus")

Spec == Init /\ [][Next]_vars

\* the arithmetic with the switch on (its default): expressions are built and
\* stored, and each operator is applied to the handles in an expression
\* statement
NextOps ==
  \/ \E h \in Handles, val \in OpLiterals : ConstructLiteral(h, val)
  \/ \E h \in Handles : NumSyms < MaxSyms /\ Sym(h)
  \/ \E h \in Handles : Destroy(h)
  \/ \E h, a, b \in Handles, op \in ArithOps : BinOp(h, a, b, op)
  \/ \E h, a \in Handles : UnOp(h, a, "neg")
  \/ \E a, b \in Handles, op \in ArithOps : EvalBin(a, b, op)
  \/ \E a \in Handles : EvalUn(a, "neg")

SpecOps == Init /\ [][NextOps]_vars

\* the same program after it switched the simplification off
NextOff ==
  \/ handles = [h \in Handles |-> 0] /\ SetSimplification(FALSE)
  \/ \E h \in Handles, val \in OffLiterals : ~simp /\ ConstructLiteral(h, val)
  \/ \E h \in Handles : ~simp /\ NumSyms < MaxSyms /\ Sym(h)
  \/ \E h, a, b \in Handles, op \in ArithOps : ~simp /\ BinOp(h, a, b, op)
  \/ \E h, a \in Handles : ~simp /\ UnOp(h, a, "neg")
  \/ \E a, b \in Handles, op \in ArithOps : ~simp /\ EvalBin(a, b, op)
  \/ \E a \in Handles : ~simp /\ EvalUn(a, "neg")

SpecOff == Init /\ [][NextOff]_vars

\* structural comparison of the expressions built
NextEq ==
  \/ \E h \in Handles, val \in OpLiterals : ConstructLiteral(h, val)
  \/ \E h \in Handles : NumSyms < MaxSyms /\ Sym(h)
  \/ \E h \in Handles : Destroy(h)
  \/ \E h, a, b \in Handles, op \in ArithOps : BinOp(h, a, b, op)
  \/ \E h, a \in Handles : UnOp(h, a, "neg")
  \/ \E a, b \in Handles, depth \in -1..MaxDepth : IsEqual(a, b, depth)

SpecEq == Init /\ [][NextEq]_vars

\* truth values of the expressions built
NextNz ==
  \/ \E h \in Handles, val \in OpLiterals : ConstructLiteral(h, val)
  \/ \E h \in Handles : NumSyms < MaxSyms /\ Sym(h)
  \/ \E h \in Handles : Destroy(h)
  \/ \E h, a, b \in Handles, op \in ArithOps : BinOp(h, a, b, op)
  \/ \E h, a \in Handles : UnOp(h, a, "neg")
  \/ \E a \in Handles : Nonzero(a)

SpecNz == Init /\ [][NextNz]_vars

\* ------------------------------------------------------------------ matrices
\* Matrix<DataType> over plain numbers (matrix_tools.hpp): a Sparsity in
\* compressed column storage paired with the sequence of its nonzeros.

MaxRows == 2         \* rows of the matrices that are split and joined
MaxCols == 3         \* columns of the matrices that are split and joined
MaxOffsets == 3      \* length of an offset list
MaxBlockOffsets == 2 \* length of the offset lists given to blocksplit

\* element k of a std::vector
at(s, k) == s[k + 1]

Sparsity(nrow, ncol, colind, row) ==
  [size1 |-> nrow, size2 |-> ncol, colind |-> colind, row |-> row]
Matrix(sp, data) == [sp |-> sp, data |-> data]

size1(A) == A.sp.size1
size2(A) == A.sp.size2
size(A) == Len(A.sp.row)
numel(A) == size1(A) * size2(A)
isEmpty(A) == size1(A) = 0 \/ size2(A) = 0
isDense(A) == size(A) = numel(A)
isScalar(A) == size1(A) = 1 /\ size2(A) = 1

\* the outcome of a call: its value, or the message of the exception thrown
Ok(v) == [err |-> "", val |-> v]
Fail(msg) == [err |-> msg, val |-> <<>>]

\* Sparsity::getCol: the column of nonzero k
colOf(sp, k) ==
  CHOOSE i \in 0..(sp.size2 - 1) : at(sp.colind, i) <= k /\ k < at(sp.colind, i + 1)
\* the position <<row, column>> of nonzero k
posOf(sp, k) == <<at(sp.row, k), colOf(sp, k)>>
\* Sparsity::getNZ: the nonzero stored at a position, -1 when there is none
getNZ(sp, rr, cc) ==
  IF \E k \in 0..(Len(sp.row) - 1) : posOf(sp, k) = <<rr, cc>>
  THEN CHOOSE k \in 0..(Len(sp.row) - 1) : posOf(sp, k) = <<rr, cc>>
  ELSE -1
hasNZ(A, rr, cc) == getNZ(A.sp, rr, cc) # -1
Positions(sp) == {posOf(sp, k) : k \in 0..(Len(sp.row) - 1)}

\* column-major rank of a position among the positions S
nzRank(S, p) ==
  Cardinality({q \in S : q[2] < p[2] \/ (q[2] = p[2] /\ q[1] < p[1])})
nzSeq(S) == [k \in 1..Cardinality(S) |-> CHOOSE p \in S : nzRank(S, p) = k - 1]
colindOf(ncol, S) ==
  [i \in 1..(ncol + 1) |-> Cardinality({q \in S : q[2] < i - 1})]
rowOf(seq) == [k \in 1..Len(seq) |-> seq[k][1]]
dataOf(e, seq) == [k \in 1..Len(seq) |-> e[seq[k]]]

\* Sparsity::triplet: the pattern holding the positions S
triplet(nrow, ncol, S) == Sparsity(nrow, ncol, colindOf(ncol, S), rowOf(nzSeq(S)))
\* the matrix holding e[p] at each position p of DOMAIN e
fromEntries(nrow, ncol, e) ==
  Matrix(triplet(nrow, ncol, DOMAIN e), dataOf(e, nzSeq(DOMAIN e)))
\* the stored entries of A by position
entries(A) == [p \in Positions(A.sp) |-> at(A.data, getNZ(A.sp, p[1], p[2]))]

\* Matrix::sparse(n, m): no stored entry
sparse(nrow, ncol) == Matrix(triplet(nrow, ncol, {}), <<>>)
\* Matrix(): 0-by-0
emptyMatrix == sparse(0, 0)
\* Matrix(DataType val): dense 1-by-1
scalarMatrix(val) == Matrix(triplet(1, 1, {<<0, 0>>}), <<val>>)
\* Matrix::ones(n, m): dense
ones(nrow, ncol) ==
  fromEntries(nrow, ncol, [p \in (0..(nrow - 1)) \X (0..(ncol - 1)) |-> 1])

\* Matrix::elem: the entry at a position, 0 when it is not stored
elem(A, rr, cc) ==
  IF hasNZ(A, rr, cc) THEN at(A.data, getNZ(A.sp, rr, cc)) ELSE 0
\* Matrix::toScalar of a 1-by-1 matrix
toScalar(A) == IF size(A) = 1 THEN at(A.data, 0) ELSE 0

transposed(e) == [p \in {<<q[2], q[1]>> : q \in DOMAIN e} |-> e[<<p[2], p[1]>>]]
\* Matrix::T
T(A) == fromEntries(size2(A), size1(A), transposed(entries(A)))

\* isMonotone of an offset list
isMonotone(v) == \A i \in 1..(Len(v) - 1) : v[i] <= v[i + 1]

\* range(start, stop, step): start, start+step, ... below stop
range(start, stop, step) ==
  [k \in 1..(IF stop > start THEN (stop - start + step - 1) \div step ELSE 0) |->
     start + (k - 1) * step]

shifted(colind, by) == [k \in 1..Len(colind) |-> colind[k] + by]

\* Matrix::appendColumns: the columns of y after those of x, the column
\* offsets of y shifted by the nonzeros already there
appendColumns(x, y) ==
  IF size1(x) = 0 /\ size2(x) = 0 THEN Ok(y)
  ELSE IF size1(y) = 0 /\ size2(y) = 0 THEN Ok(x)
  ELSE IF size1(x) # size1(y) THEN Fail("appendColumns: row sizes must match")
  ELSE Ok(Matrix(Sparsity(size1(x), size2(x) + size2(y),
                          x.sp.colind \o shifted(Tail(y.sp.colind), size(x)),
                          x.sp.row \o y.sp.row),
                 x.data \o y.data))

RECURSIVE appendAll(_, _, _)
\* ret.appendColumns(v[i]) for i, i+1, ...
appendAll(ret, v, i) ==
  IF ret.err # "" \/ i > Len(v) THEN ret
  ELSE appendAll(appendColumns(ret.val, v[i]), v, i + 1)

\* horzcat(std::vector<Matrix>)
horzcat(v) == appendAll(Ok(emptyMatrix), v, 1)

transposeAll(v) == [i \in 1..Len(v) |-> T(v[i])]
transposeOf(R) == IF R.err # "" THEN R ELSE Ok(T(R.val))
transposeEach(R) == IF R.err # "" THEN R ELSE Ok(transposeAll(R.val))

\* vertcat(std::vector<Matrix>)
vertcat(v) == transposeOf(appendAll(Ok(emptyMatrix), transposeAll(v), 1))

\* the sub-matrix that takes its data from the first nonzeros of v
horzsplit_piece_first_data(v, start, stop) ==
  Matrix(Sparsity(size1(v), stop - start,
                  [k \in 1..(stop - start + 1) |->
                     at(v.sp.colind, start + k - 1) - at(v.sp.colind, start)],
                  SubSeq(v.sp.row, at(v.sp.colind, start) + 1, at(v.sp.colind, stop))),
         SubSeq(v.data, 1, at(v.sp.colind, stop) - at(v.sp.colind, start)))

\* the sub-matrix of the columns start .. stop-1 of v
horzsplit_piece(v, start, stop) ==
  Matrix(Sparsity(size1(v), stop - start,
                  [k \in 1..(stop - start + 1) |->
                     at(v.sp.colind, start + k - 1) - at(v.sp.colind, start)],
                  SubSeq(v.sp.row, at(v.sp.colind, start) + 1, at(v.sp.colind, stop))),
         SubSeq(v.data, at(v.sp.colind, start) + 1, at(v.sp.colind, stop)))

\* the column at which piece i stops
horzsplit_stop(v, offset, i) ==
  IF i + 1 <= Len(offset) THEN offset[i + 1] ELSE size2(v)

\* horzsplit that accepts a first offset above 0
horzsplit_any_front(v, offset) ==
  IF ~(Len(offset) >= 1) THEN Fail("offset.size()>=1")
  ELSE IF ~(offset[1] >= 0) THEN Fail("offset.front()==0")
  ELSE IF ~(offset[Len(offset)] <= size2(v))
    THEN Fail("Last elements of offset must be at maximum the number of cols in v")
  ELSE IF ~isMonotone(offset) THEN Fail("isMonotone(offset)")
  ELSE Ok([i \in 1..Len(offset) |->
             horzsplit_piece(v, offset[i], horzsplit_stop(v, offset, i))])

\* horzsplit that stops at the last offset
horzsplit_to_last(v, offset) ==
  IF ~(Len(offset) >= 1) THEN Fail("offset.size()>=1")
  ELSE IF ~(offset[1] = 0) THEN Fail("offset.front()==0")
  ELSE IF ~(offset[Len(offset)] <= size2(v))
    THEN Fail("Last elements of offset must be at maximum the number of cols in v")
  ELSE IF ~isMonotone(offset) THEN Fail("isMonotone(offset)")
  ELSE Ok([i \in 1..(Len(offset) - 1) |->
             horzsplit_piece(v, offset[i], offset[i + 1])])

\* horzsplit(v, offset)
horzsplit(v, offset) ==
  IF ~(Len(offset) >= 1) THEN Fail("offset.size()>=1")
  ELSE IF ~(offset[1] = 0) THEN Fail("offset.front()==0")
  ELSE IF ~(offset[Len(offset)] <= size2(v))
    THEN Fail("Last elements of offset must be at maximum the number of cols in v")
  ELSE IF ~isMonotone(offset) THEN Fail("isMonotone(offset)")
  ELSE Ok([i \in 1..Len(offset) |->
             horzsplit_piece(v, offset[i], horzsplit_stop(v, offset, i))])

\* horzsplit(v, incr)
horzsplit_incr(v, incr) ==
  IF ~(incr >= 1) THEN Fail("incr>=1")
  ELSE horzsplit(v, range(0, size2(v), incr))

\* vertsplit(x, offset)
vertsplit(x, offset) == transposeEach(horzsplit(T(x), offset))

\* vertsplit(x, incr)
vertsplit_incr(x, incr) ==
  IF ~(incr >= 1) THEN Fail("incr>=1")
  ELSE vertsplit(x, range(0, size1(x), incr))

\* the first exception among the outcomes rs, else their values
collect(rs) ==
  IF \E i \in 1..Len(rs) : rs[i].err # ""
  THEN Fail(rs[CHOOSE i \in 1..Len(rs) :
                 rs[i].err # "" /\ \A j \in 1..(i - 1) : rs[j].err = ""].err)
  ELSE Ok([i \in 1..Len(rs) |-> rs[i].val])

horzsplit_rows(rows, horz_offset) ==
  IF rows.err # "" THEN rows
  ELSE collect([i \in 1..Len(rows.val) |-> horzsplit(rows.val[i], horz_offset)])

\* blocksplit(x, vert_offset, horz_offset)
blocksplit(x, vert_offset, horz_offset) ==
  horzsplit_rows(vertsplit(x, vert_offset), horz_offset)

vertcat_of(R) == IF R.err # "" THEN R ELSE vertcat(R.val)

\* blockcat(std::vector<std::vector<Matrix>>)
blockcat(v) == vertcat_of(collect([i \in 1..Len(v) |-> horzcat(v[i])]))

\* ------------------------------------------------------------------ matrix calls
\* A program that holds one matrix of plain numbers and calls one function of
\* matrix_tools.hpp on it: last records the call, its arguments and outcome.
\* No SXElement is involved, so the nodes and handles stay as constructed.

SXStart ==
  /\ heap = [n \in NodeIds |->
               IF n \in Singletons THEN [StaticNode(n) EXCEPT !.count = 1]
               ELSE FreeNode]
  /\ icache = {<<2, TWO>>}
  /\ rcache = {}
  /\ handles = [h \in Handles |-> 0]
  /\ simp = TRUE
  /\ dfree = 0

\* the matrix the program holds before the call
Input(A, B) == [act |-> "input", A |-> A, B |-> B, arg |-> <<>>,
                out |-> Ok(<<>>), back |-> Ok(<<>>)]

\* the call act(A, arg) returned out; back is what the inverse call made of it
Called(act, arg, out, back) ==
  /\ last.act = "input"
  /\ last' = [last EXCEPT !.act = act, !.arg = arg, !.out = out, !.back = back]
  /\ UNCHANGED <<heap, icache, rcache, handles, simp, dfree>>

\* the entry stored at a position of a matrix that is split: all distinct
Label(p) == 1 + p[1] + 10 * p[2]

PatternsOf(nrow, ncol) == SUBSET ((0..(nrow - 1)) \X (0..(ncol - 1)))
\* the matrix of pattern S with its labels stored
Labelled(nrow, ncol, S) == fromEntries(nrow, ncol, [p \in S |-> Label(p)])

SeqsUpTo(n, S) == UNION {[1..k -> S] : k \in 0..n}
OffsetLists == SeqsUpTo(MaxOffsets, -1..(MaxCols + 1))
BlockOffsetLists == SeqsUpTo(MaxBlockOffsets, 0..MaxCols)
Increments == -1..(MaxCols + 1)

InitSplit ==
  /\ SXStart
  /\ \E d \in (0..MaxRows) \X (0..MaxCols) :
       \E S \in PatternsOf(d[1], d[2]) :
         last = Input(Labelled(d[1], d[2], S), emptyMatrix)

horzcat_of(R) == IF R.err # "" THEN R ELSE horzcat(R.val)
blockcat_of(R) == IF R.err # "" THEN R ELSE blockcat(R.val)

Horzsplit(offset) ==
  Called("horzsplit", offset, horzsplit(last.A, offset),
         horzcat_of(horzsplit(last.A, offset)))

Vertsplit(offset) ==
  Called("vertsplit", offset, vertsplit(last.A, offset),
         vertcat_of(vertsplit(last.A, offset)))

Blocksplit(vert_offset, horz_offset) ==
  Called("blocksplit", <<vert_offset, horz_offset>>,
         blocksplit(last.A, vert_offset, horz_offset),
         blockcat_of(blocksplit(last.A, vert_offset, horz_offset)))

HorzsplitIncr(incr) ==
  Called("horzsplit_incr", incr, horzsplit_incr(last.A, incr),
         horzcat_of(horzsplit_incr(last.A, incr)))

VertsplitIncr(incr) ==
  Called("vertsplit_incr", incr, vertsplit_incr(last.A, incr),
         vertcat_of(vertsplit_incr(last.A, incr)))

NextSplit ==
  \/ \E offset \in OffsetLists : Horzsplit(offset)
  \/ \E offset \in OffsetLists : Vertsplit(offset)
  \/ \E vert_offset, horz_offset \in BlockOffsetLists :
       Blocksplit(vert_offset, horz_offset)
  \/ \E incr \in Increments : HorzsplitIncr(incr)
  \/ \E incr \in Increments : VertsplitIncr(incr)

SpecSplit == InitSplit /\ [][NextSplit]_vars

\* ------------------------------------------------------------------ reshape, unite
PairRows == 2        \* rows of the matrices given to reshape and unite
PairCols == 2        \* columns of the matrices given to reshape and unite

\* Matrix(const Sparsity&, const std::vector<DataType>&)
construct(sp, data) ==
  IF Len(data) # Len(sp.row) THEN Fail("Matrix: data does not match the sparsity")
  ELSE Ok(Matrix(sp, data))

\* the position of column-major element number k in a matrix of nrow rows
unravel(k, nrow) == <<k % nrow, k \div nrow>>

\* Sparsity::reshape: the same element numbers in the new dimensions
Sparsity_reshape(sp, nrow, ncol) ==
  IF sp.size1 * sp.size2 # nrow * ncol THEN Fail("reshape: number of elements must remain the same")
  ELSE Ok(triplet(nrow, ncol,
                  {unravel(p[1] + p[2] * sp.size1, nrow) : p \in Positions(sp)}))

construct_from(R, data) == IF R.err # "" THEN R ELSE construct(R.val, data)

\* reshape(a, nrow, ncol)
reshape(a, nrow, ncol) == construct_from(Sparsity_reshape(a.sp, nrow, ncol), a.data)

\* reshape(x, sp) without its check of the number of nonzeros
reshape_sp_unchecked(x, sp) ==
  IF sp = x.sp THEN Ok(x) ELSE Ok(Matrix(sp, x.data))

\* reshape(x, sp)
reshape_sp(x, sp) ==
  IF sp = x.sp THEN Ok(x)
  ELSE IF ~(size(x) = Len(sp.row)) THEN Fail("x.size()==sp.size()")
  ELSE construct(sp, x.data)

\* the tag of a position of the united pattern: 1 from A, 2 from B, 3 from both
tagOf(a, b, p) ==
  (IF p \in Positions(a) THEN 1 ELSE 0) + (IF p \in Positions(b) THEN 2 ELSE 0)
tagsOf(a, b, seq) == [k \in 1..Len(seq) |-> tagOf(a, b, seq[k])]

\* Sparsity::patternUnion: the united pattern and the tag of each nonzero
patternUnion(a, b) ==
  [sp |-> triplet(a.size1, a.size2, Positions(a) \cup Positions(b)),
   mapping |-> tagsOf(a, b, nzSeq(Positions(a) \cup Positions(b)))]

RECURSIVE unite_copy_both(_, _, _, _, _, _, _)
\* the copy loop of unite taking the entry of A where both have one
unite_copy_both(mapping, A, B, k, elA, elB, data) ==
  IF k >= Len(mapping) THEN
    IF ~(size(A) = elA) THEN Fail("A.size()==elA")
    ELSE IF ~(size(B) = elB) THEN Fail("B.size()==elB")
    ELSE Ok(data)
  ELSE IF at(mapping, k) = 1
    THEN unite_copy_both(mapping, A, B, k + 1, elA + 1, elB, Append(data, at(A.data, elA)))
  ELSE IF at(mapping, k) = 2
    THEN unite_copy_both(mapping, A, B, k + 1, elA, elB + 1, Append(data, at(B.data, elB)))
  ELSE unite_copy_both(mapping, A, B, k + 1, elA + 1, elB + 1, Append(data, at(A.data, elA)))

RECURSIVE unite_copy(_, _, _, _, _, _, _)
\* the copy loop of unite from nonzero k on, and its closing checks
unite_copy(mapping, A, B, k, elA, elB, data) ==
  IF k >= Len(mapping) THEN
    IF ~(size(A) = elA) THEN Fail("A.size()==elA")
    ELSE IF ~(size(B) = elB) THEN Fail("B.size()==elB")
    ELSE Ok(data)
  ELSE IF at(mapping, k) = 1
    THEN unite_copy(mapping, A, B, k + 1, elA + 1, elB, Append(data, at(A.data, elA)))
  ELSE IF at(mapping, k) = 2
    THEN unite_copy(mapping, A, B, k + 1, elA, elB + 1, Append(data, at(B.data, elB)))
  ELSE Fail("Pattern intersection not empty")

unite_result(sp, R) == IF R.err # "" THEN R ELSE Ok(Matrix(sp, R.val))
unite_from(U, A, B) == unite_result(U.sp, unite_copy(U.mapping, A, B, 0, 0, 0, <<>>))

\* unite(A, B)
unite(A, B) == unite_from(patternUnion(A.sp, B.sp), A, B)

\* the entry stored at a position of the second matrix of a call
LabelB(p) == 100 + Label(p)
LabelledB(nrow, ncol, S) == fromEntries(nrow, ncol, [p \in S |-> LabelB(p)])
PairDims == (0..PairRows) \X (0..PairCols)

InitShape ==
  /\ SXStart
  /\ \E d, e \in PairDims :
       \E S \in PatternsOf(d[1], d[2]), S2 \in PatternsOf(e[1], e[2]) :
         last = Input(Labelled(d[1], d[2], S), LabelledB(e[1], e[2], S2))

Outcome(act, arg, out) == Called(act, arg, out, Ok(<<>>))

\* reshape(A, B.sparsity())
ReshapeSp == Outcome("reshape_sp", <<>>, reshape_sp(last.A, last.B.sp))

\* reshape(A, nrow, ncol)
Reshape(nrow, ncol) == Outcome("reshape", <<nrow, ncol>>, reshape(last.A, nrow, ncol))

\* unite(A, B) of two matrices of the same dimensions
Unite ==
  /\ size1(last.A) = size1(last.B) /\ size2(last.A) = size2(last.B)
  /\ Outcome("unite", <<>>, unite(last.A, last.B))

NextShape ==
  \/ ReshapeSp
  \/ \E nrow, ncol \in 0..(PairRows * PairCols) : Reshape(nrow, ncol)
  \/ Unite

SpecShape == InitShape /\ [][NextShape]_vars

\* ------------------------------------------------------------------ linear algebra
MaxN == 3            \* order of the square matrices given to det

RECURSIVE dot(_, _, _, _, _)
\* the sum of x(r,k) * y(k,c) over k, k+1, ...
dot(x, y, r, c, k) ==
  IF k >= size2(x) THEN 0
  ELSE elem(x, r, k) * elem(y, k, c) + dot(x, y, r, c, k + 1)

\* the positions of a product: some x(r,k) and y(k,c) are both stored
productPattern(x, y) ==
  {<<p[1], q[2]>> : <<p, q>> \in {pq \in Positions(x.sp) \X Positions(y.sp) :
                                    pq[1][2] = pq[2][1]}}

\* Matrix::mul: the matrix product, stored where the pattern product is
mul(x, y) ==
  IF size2(x) # size1(y) THEN Fail("mul: dimension mismatch")
  ELSE Ok(fromEntries(size1(x), size2(y),
                      [p \in productPattern(x, y) |-> dot(x, y, p[1], p[2], 0)]))

RECURSIVE sumData(_, _)
\* res += x.data()[k] for k, k+1, ...
sumData(data, k) ==
  IF k >= Len(data) THEN 0 ELSE at(data, k) + sumData(data, k + 1)

\* sumAll
sumAll(x) ==
  IF isEmpty(x) THEN sparse(1, 1) ELSE scalarMatrix(sumData(x.data, 0))

\* sumCols
sumCols(x) == mul(x, ones(size2(x), 1)).val

\* sumRows
sumRows(x) == mul(ones(1, size1(x)), x).val

\* the elements of a set of numbers in increasing order
sorted(S) ==
  [k \in 1..Cardinality(S) |-> CHOOSE x \in S : Cardinality({y \in S : y < x}) = k - 1]

\* std::min_element: the index of the first smallest element
min_element(data) ==
  IF Len(data) = 0 THEN 0
  ELSE CHOOSE i \in 0..(Len(data) - 1) :
         /\ \A j \in 0..(Len(data) - 1) : at(data, i) <= at(data, j)
         /\ \A j \in 0..(i - 1) : at(data, j) > at(data, i)

\* IMatrix(a.sparsity(), 1)
onesOn(sp) == Matrix(sp, [k \in 1..Len(sp.row) |-> 1])
row_count(a) == sumCols(onesOn(a.sp))
col_count(a) == T(sumRows(onesOn(a.sp)))
min_row(a) == min_element(row_count(a).data)
min_col(a) == min_element(col_count(a).data)

\* the columns stored in row j, and the rows stored in column i, in order
storedCols(a, j) == sorted({p[2] : p \in {q \in Positions(a.sp) : q[1] = j}})
storedRows(a, i) == sorted({p[1] : p \in {q \in Positions(a.sp) : q[2] = i}})

\* x without its column i and its row j
minorMatrix(x, i, j) ==
  fromEntries(size2(x) - 1, size2(x) - 1,
              [p \in {<<IF q[1] < j THEN q[1] ELSE q[1] - 1,
                        IF q[2] < i THEN q[2] ELSE q[2] - 1>> :
                        q \in {q \in Positions(x.sp) : q[1] # j /\ q[2] # i}} |->
                 elem(x, IF p[1] < j THEN p[1] ELSE p[1] + 1,
                         IF p[2] < i THEN p[2] ELSE p[2] + 1)])

RECURSIVE det_square(_), minor_square(_, _, _), cofactor(_, _, _),
          expand_row(_, _, _, _), expand_col(_, _, _, _)

\* cofactor without the sign of the position
cofactor_unsigned(x, i, j) == minor_square(x, i, j)

\* cofactor(x, i, j)
cofactor(x, i, j) == (1 - 2 * ((i + j) % 2)) * minor_square(x, i, j)

\* getMinor(x, i, j) of a square matrix
minor_square(x, i, j) ==
  IF size2(x) = 1 THEN 1 ELSE det_square(minorMatrix(x, i, j))

\* ret += row.at(k)*cofactor(a, col_i.at(k), j) for k, k+1, ...
expand_row(a, j, col_i, k) ==
  IF k >= Len(col_i) THEN 0
  ELSE elem(a, j, at(col_i, k)) * cofactor(a, at(col_i, k), j)
       + expand_row(a, j, col_i, k + 1)

\* ret += col.at(k)*cofactor(a, i, row_i.at(k)) for k, k+1, ...
expand_col(a, i, row_i, k) ==
  IF k >= Len(row_i) THEN 0
  ELSE elem(a, at(row_i, k), i) * cofactor(a, i, at(row_i, k))
       + expand_col(a, i, row_i, k + 1)

expand_along_row(a, j) == expand_row(a, j, storedCols(a, j), 0)
expand_along_col(a, i) == expand_col(a, i, storedRows(a, i), 0)

\* det(a) of a square matrix; both blank-line tests (lines 461 and 467) are
\* made on row_count
det_square(a) ==
  IF isScalar(a) THEN toScalar(a)
  ELSE IF size2(a) = 2
    THEN elem(a, 0, 0) * elem(a, 1, 1) - elem(a, 0, 1) * elem(a, 1, 0)
  ELSE IF ~isDense(row_count(a)) THEN 0
  ELSE IF min_row(a) <= min_col(a)
    THEN expand_along_row(a, at(row_count(a).sp.row, min_row(a)))
  ELSE expand_along_col(a, at(col_count(a).sp.row, min_col(a)))

\* the direction det(a) expands a square matrix along: none when it returns
\* at line 444, 447 or 461
det_along(a) ==
  IF isScalar(a) \/ size2(a) = 2 \/ ~isDense(row_count(a)) THEN "none"
  ELSE IF min_row(a) <= min_col(a) THEN "row" ELSE "col"

\* the row j (line 474) or the column i (487) it expands along
det_line(a) ==
  IF min_row(a) <= min_col(a) THEN at(row_count(a).sp.row, min_row(a))
  ELSE at(col_count(a).sp.row, min_col(a))

\* the number of calls of cofactor made by its loop (lines 480-483, 493-496)
det_cofactors(a) ==
  IF det_along(a) = "row" THEN Len(storedCols(a, det_line(a)))
  ELSE IF det_along(a) = "col" THEN Len(storedRows(a, det_line(a)))
  ELSE 0

\* det(a)
det(a) ==
  IF ~(size2(a) = size1(a)) THEN Fail("matrix must be square")
  ELSE Ok(det_square(a))

\* getMinor(x, i, j)
getMinor(x, i, j) ==
  IF ~(size2(x) = size1(x)) THEN Fail("getMinor: matrix must be square")
  ELSE Ok(minor_square(x, i, j))

\* the cofactor matrix C of adj: C(j,i) = cofactor(a,i,j) where it is not 0
cofactorMatrix(a) ==
  fromEntries(size2(a), size2(a),
              [p \in {q \in (0..(size2(a) - 1)) \X (0..(size2(a) - 1)) :
                        cofactor(a, q[2], q[1]) # 0} |->
                 cofactor(a, p[2], p[1])])

\* adj that returns the cofactor matrix as it was filled
adj_untransposed(a) ==
  IF ~(size2(a) = size1(a)) THEN Fail("adj: matrix must be square")
  ELSE Ok(cofactorMatrix(a))


\* adj(a)
adj(a) ==
  IF ~(size2(a) = size1(a)) THEN Fail("adj: matrix must be square")
  ELSE Ok(T(cofactorMatrix(a)))

\* adj(a)/det(a), kept as numerator and denominator
quotient(N, D) ==
  IF N.err # "" THEN N ELSE IF D.err # "" THEN D
  ELSE Ok([adj |-> N.val, det |-> D.val])

\* inv(a) of a matrix
inv_matrix(a) == quotient(adj(a), det(a))

RECURSIVE sumDiag(_, _)
\* res += a.elem(i,i) for i, i+1, ...
sumDiag(a, i) ==
  IF i >= size2(a) THEN 0 ELSE elem(a, i, i) + sumDiag(a, i + 1)

\* trace without its check
trace_unchecked(a) == Ok(sumDiag(a, 0))

\* trace(a)
trace(a) ==
  IF ~(size2(a) = size1(a)) THEN Fail("trace: must be square")
  ELSE Ok(sumDiag(a, 0))

\* ------------------------------------------------------------------ numbers
\* The field of the entries of solve, qr and pinv: a fraction <<n, d>> in
\* lowest terms with d > 0.  NaR, written <<0, 0>>, stands for every value
\* that is not a fraction: a division by zero, a root that is not rational,
\* and whatever is computed from them.

RECURSIVE gcd(_, _)
gcd(a, b) == IF b = 0 THEN a ELSE gcd(b, a % b)

abs(n) == IF n < 0 THEN -n ELSE n

NaR == <<0, 0>>
lowest(n, d, g) == IF d < 0 THEN <<(-n) \div g, (-d) \div g>> ELSE <<n \div g, d \div g>>
frac(n, d) == IF d = 0 THEN NaR ELSE lowest(n, d, gcd(abs(n), abs(d)))
whole(n) == <<n, 1>>

q_isNaR(x) == x[2] = 0
q_isZero(x) == x[1] = 0 /\ x[2] # 0
q_neg(x) == <<-x[1], x[2]>>
q_add(x, y) ==
  IF q_isNaR(x) \/ q_isNaR(y) THEN NaR
  ELSE frac(x[1] * y[2] + y[1] * x[2], x[2] * y[2])
q_sub(x, y) == q_add(x, q_neg(y))
q_mul(x, y) ==
  IF q_isNaR(x) \/ q_isNaR(y) THEN NaR ELSE frac(x[1] * y[1], x[2] * y[2])
q_div(x, y) ==
  IF q_isNaR(x) \/ q_isNaR(y) THEN NaR ELSE frac(x[1] * y[2], x[2] * y[1])

\* the natural number whose square is n, -1 when there is none
root(n) ==
  IF \E r \in 0..n : r * r = n THEN CHOOSE r \in 0..n : r * r = n ELSE -1
\* sqrt
q_sqrt(x) ==
  IF q_isNaR(x) \/ x[1] < 0 \/ root(x[1]) = -1 \/ root(x[2]) = -1 THEN NaR
  ELSE <<root(x[1]), root(x[2])>>

\* the matrix of the fractions n/1 of a matrix of integers
fractions(A) == Matrix(A.sp, [k \in 1..Len(A.data) |-> whole(A.data[k])])
\* the matrix of the integers of a matrix of fractions n/1
integers(A) == Matrix(A.sp, [k \in 1..Len(A.data) |-> A.data[k][1] \div A.data[k][2]])

\* the entry at a position of a matrix of fractions, 0 when it is not stored
q_elem(A, rr, cc) ==
  IF hasNZ(A, rr, cc) THEN at(A.data, getNZ(A.sp, rr, cc)) ELSE whole(0)

RECURSIVE q_dot(_, _, _, _, _)
\* the sum of x(r,k) * y(k,c) over k, k+1, ...
q_dot(x, y, r, c, k) ==
  IF k >= size2(x) THEN whole(0)
  ELSE q_add(q_mul(q_elem(x, r, k), q_elem(y, k, c)), q_dot(x, y, r, c, k + 1))

\* Matrix::mul of matrices of fractions
q_matmul(x, y) ==
  fromEntries(size1(x), size2(y),
              [p \in productPattern(x, y) |-> q_dot(x, y, p[1], p[2], 0)])

\* ------------------------------------------------------------------ qr
\* the positions (i,j) of the result of M(rr, cc) that are stored
subPositions(M, rr, cc) ==
  {p \in (0..(Len(rr) - 1)) \X (0..(Len(cc) - 1)) : hasNZ(M, at(rr, p[1]), at(cc, p[2]))}

\* Matrix::sub: M(rr, cc), the rows rr and the columns cc of M in that order
sub(M, rr, cc) ==
  fromEntries(Len(rr), Len(cc),
              [p \in subPositions(M, rr, cc) |-> q_elem(M, at(rr, p[1]), at(cc, p[2]))])

\* ALL: every column of M
allCols(M) == [k \in 1..size2(M) |-> k - 1]

\* ALL: every row of M
allRows(M) == [k \in 1..size1(M) |-> k - 1]

\* M(ALL, i): column i of M
column(M, i) == sub(M, allRows(M), <<i>>)

\* c * v and v / c for a number c: the stored entries of v
scaled(v, c) == Matrix(v.sp, [k \in 1..Len(v.data) |-> q_mul(c, v.data[k])])
divided(v, c) == Matrix(v.sp, [k \in 1..Len(v.data) |-> q_div(v.data[k], c)])

\* x - y: stored where x or y is
minus(x, y) ==
  fromEntries(size1(x), size2(x),
              [p \in Positions(x.sp) \cup Positions(y.sp) |->
                 q_sub(q_elem(x, p[1], p[2]), q_elem(y, p[1], p[2]))])

RECURSIVE sumSquares(_, _)
\* sumAll(x*x): the squares of the stored entries k, k+1, ...
sumSquares(data, k) ==
  IF k >= Len(data) THEN whole(0)
  ELSE q_add(q_mul(at(data, k), at(data, k)), sumSquares(data, k + 1))

\* norm_2 of a vector with an element: norm_F (lines 801-812)
norm_2(x) == q_sqrt(sumSquares(x.data, 0))

\* the column under construction: the column ai of A, the residual qi, the
\* entries ri of the column of R, and the left operands of the products
qr_start(ai) ==
  [ai |-> ai, qi |-> ai, ri |-> [p \in {} |-> NaR], operands |-> <<>>]

\* the left operand of the product of classical Gram-Schmidt (line 845)
qr_operand_classical(c) == c.ai

\* the left operand of the product of line 844: the residual qi
qr_operand(c) == c.qi

\* lines 844-849 with prod = mul(qi.T(), qj): ri(j,0) = prod, and the
\* projection on qj is removed if ri has a nonzero at (j,0)
qr_step(c, qj, prod, j) ==
  IF size(prod) = 0 THEN [c EXCEPT !.operands = Append(@, qr_operand(c))]
  ELSE [ai |-> c.ai,
        qi |-> minus(c.qi, scaled(qj, at(prod.data, 0))),
        ri |-> [p \in (DOMAIN c.ri) \cup {<<j, 0>>} |->
                  IF p = <<j, 0>> THEN at(prod.data, 0) ELSE c.ri[p]],
        operands |-> Append(c.operands, qr_operand(c))]

RECURSIVE qr_project(_, _, _, _)
\* for(int j=0; j<i; ++j): lines 839-850
qr_project(c, Q, j, i) ==
  IF j >= i THEN c
  ELSE qr_project(qr_step(c, column(Q, j),
                          q_matmul(T(qr_operand(c)), column(Q, j)), j),
                  Q, j + 1, i)

\* lines 853-858: ri(i,0) = norm_2(qi), qi /= ri(i,0), and the two columns
\* are appended
qr_append(QR, c, nrm, i, n) ==
  [Q |-> appendColumns(QR.Q, divided(c.qi, nrm)).val,
   R |-> appendColumns(QR.R,
                       fromEntries(n, 1,
                                   [p \in (DOMAIN c.ri) \cup {<<i, 0>>} |->
                                      IF p = <<i, 0>> THEN nrm ELSE c.ri[p]])).val,
   operands |-> Append(QR.operands, c.operands)]

\* the projections of column i finished as c
qr_normalize(QR, c, i, n) == qr_append(QR, c, norm_2(c.qi), i, n)

RECURSIVE qr_columns(_, _, _)
\* for(int i=0; i<A.size2(); ++i): lines 833-860
qr_columns(A, QR, i) ==
  IF i >= size2(A) THEN QR
  ELSE qr_columns(A,
                  qr_normalize(QR, qr_project(qr_start(column(A, i)), QR.Q, 0, i),
                               i, size2(A)),
                  i + 1)

\* Q and R of a matrix of fractions with no fewer rows than columns
qr_factors(A) ==
  qr_columns(A, [Q |-> emptyMatrix, R |-> emptyMatrix, operands |-> <<>>], 0)

\* qr(A, Q, R) of a matrix of integers
qr(A) ==
  IF ~(size1(A) >= size2(A)) THEN Fail("qr: fewer rows than columns")
  ELSE Ok(qr_factors(fractions(A)))

\* solve(A, b): its checks; the solution is a matrix of real numbers and is
\* not computed
solve(A, b) ==
  IF ~(size1(A) = size1(b)) THEN Fail("solve Ax=b: dimension mismatch")
  ELSE IF ~(size1(A) = size2(A)) THEN Fail("solve: A not square")
  ELSE Ok(<<>>)

\* ------------------------------------------------------------------ linear algebra calls
\* the entries of the matrices given to det
DetVals == {-1, 2}

InitDet ==
  /\ SXStart
  /\ \E n \in 1..MaxN :
       \E S \in PatternsOf(n, n) :
         \E e \in [S -> DetVals] :
           last = Input(fromEntries(n, n, e), emptyMatrix)

\* det(A)
Det == Outcome("det", <<>>, det(last.A))

NextDet == Det

SpecDet == InitDet /\ [][NextDet]_vars

\* the entries of the matrices given to the checked functions and the sums,
\* a stored 0 among them
LinVals == {0, 1, -2}
RightHandSides == {sparse(nrow, 1) : nrow \in 0..MaxCols}

InitLin ==
  /\ SXStart
  /\ \E d \in (0..MaxRows) \X (0..MaxCols) :
       \E S \in PatternsOf(d[1], d[2]) :
         \E e \in [S -> LinVals] :
           last = Input(fromEntries(d[1], d[2], e), emptyMatrix)

\* det(A) of a matrix that has an element
DetOf == numel(last.A) > 0 /\ Outcome("det", <<>>, det(last.A))

\* getMinor(A, i, j)
GetMinor(i, j) ==
  /\ i < size2(last.A) /\ j < size1(last.A)
  /\ Outcome("getMinor", <<i, j>>, getMinor(last.A, i, j))

\* adj(A)
Adj == Outcome("adj", <<>>, adj(last.A))

\* inv(A) of a matrix that has an element
Inv == numel(last.A) > 0 /\ Outcome("inv", <<>>, inv_matrix(last.A))

\* trace(A)
Trace == Outcome("trace", <<>>, trace(last.A))

\* qr(A, Q, R)
Qr == Outcome("qr", <<>>, qr(last.A))

\* solve(A, b)
Solve(b) == Outcome("solve", b, solve(last.A, b))

\* sumAll(A), and sumRows(sumCols(A)) beside it
SumAll == Called("sumAll", <<>>, Ok(sumAll(last.A)), Ok(sumRows(sumCols(last.A))))

\* sumCols(A), and the product A * ones(ncol, 1) beside it
SumCols ==
  Called("sumCols", <<>>, Ok(sumCols(last.A)), mul(last.A, ones(size2(last.A), 1)))

\* sumRows(A), and the product ones(1, nrow) * A beside it
SumRows ==
  Called("sumRows", <<>>, Ok(sumRows(last.A)), mul(ones(1, size1(last.A)), last.A))

NextLin ==
  \/ DetOf
  \/ \E i \in 0..(MaxCols - 1), j \in 0..(MaxRows - 1) : GetMinor(i, j)
  \/ Adj
  \/ Inv
  \/ Trace
  \/ Qr
  \/ \E b \in RightHandSides : Solve(b)
  \/ SumAll
  \/ SumCols
  \/ SumRows

SpecLin == InitLin /\ [][NextLin]_vars

\* the entries of the matrices given to adj and inv, by row and column: a
\* table with a vanishing cofactor, two without, and one with stored zeros
AdjTables ==
  { <<<<1, 1, 1>>, <<1, 1, 2>>, <<2, 3, 4>>>>,
    <<<<2, -1, 3>>, <<-1, 2, -1>>, <<5, -1, 2>>>>,
    <<<<-1, 2, 2>>, <<2, -1, 2>>, <<2, 2, -1>>>>,
    <<<<0, 1, 2>>, <<3, 0, 1>>, <<1, 1, 0>>>> }

InitAdj ==
  /\ SXStart
  /\ \E n \in 1..MaxN :
       \E S \in PatternsOf(n, n) :
         \E t \in AdjTables :
           last = Input(fromEntries(n, n, [p \in S |-> t[p[1] + 1][p[2] + 1]]),
                        emptyMatrix)

NextAdj == Adj \/ Inv

SpecAdj == InitAdj /\ [][NextAdj]_vars

\* the entries of the matrices given to qr by row and column: a product of an
\* orthogonal and a triangular matrix of fractions, a matrix of orthogonal
\* columns, and a matrix of two blocks
QrTables ==
  { <<<<1, 3, 7>>, <<2, 3, 2>>, <<2, 0, -1>>>>,
    <<<<1, 2, 2>>, <<2, 1, -2>>, <<2, -2, 1>>>>,
    <<<<3, -4, 0>>, <<4, 3, 0>>, <<0, 0, 5>>>> }

InitQr ==
  /\ SXStart
  /\ \E d \in (0..MaxN) \X (0..MaxN) :
       \E S \in PatternsOf(d[1], d[2]), t \in QrTables :
         last = Input(fromEntries(d[1], d[2], [p \in S |-> t[p[1] + 1][p[2] + 1]]),
                      emptyMatrix)

NextQr == Qr

SpecQr == InitQr /\ [][NextQr]_vars

\* ------------------------------------------------------------------ solve
\* Sparsity::isTril, isTriu: no entry stored above, below the diagonal
isTril(A) == \A p \in Positions(A.sp) : p[1] >= p[2]
isTriu(A) == \A p \in Positions(A.sp) : p[1] <= p[2]

\* x(p) /= v, on the stored entries x
divideAt(x, p, v) == [x EXCEPT ![p] = q_div(@, v)]
\* x(p) -= v that leaves an entry that is not stored as it is
subtractAt_stored(x, p, v) ==
  IF p \in DOMAIN x THEN [x EXCEPT ![p] = q_sub(@, v)] ELSE x

\* x(p) -= v: the entry is stored by the assignment when it was not
subtractAt(x, p, v) ==
  [q \in (DOMAIN x) \cup {p} |->
     IF q = p THEN q_sub(IF p \in DOMAIN x THEN x[p] ELSE whole(0), v) ELSE x[q]]

RECURSIVE tril_below(_, _, _, _, _), tril_rhs(_, _, _, _), tril_cols(_, _, _)
RECURSIVE triu_above(_, _, _, _, _), triu_rhs(_, _, _, _), triu_cols(_, _, _)

\* for(kk=Acolind[i+1]-1; kk>=Acolind[i] && Arow[kk]>i; --kk)
\*   x(Arow[kk],k) -= Adata[kk]*x(i,k)
tril_below(A, x, i, k, kk) ==
  IF ~(kk >= at(A.sp.colind, i) /\ at(A.sp.row, kk) > i) THEN x
  ELSE tril_below(A, subtractAt(x, <<at(A.sp.row, kk), k>>,
                                q_mul(at(A.data, kk), x[<<i, k>>])),
                  i, k, kk - 1)

\* the right hand sides k, k+1, ... of column i
tril_rhs(A, x, i, k) ==
  IF k >= size2(x.dim) THEN x
  ELSE IF <<i, k>> \notin DOMAIN x.e THEN tril_rhs(A, x, i, k + 1)
  ELSE tril_rhs(A, [x EXCEPT !.e =
                      tril_below(A, divideAt(x.e, <<i, k>>, q_elem(A, i, i)),
                                 i, k, at(A.sp.colind, i + 1) - 1)],
                i, k + 1)

\* the columns i, i+1, ... forwards
tril_cols(A, x, i) ==
  IF i >= size2(A) THEN x ELSE tril_cols(A, tril_rhs(A, x, i, 0), i + 1)

\* for(kk=Acolind[i]; kk<Acolind[i+1] && Arow[kk]<i; ++kk)
\*   x(Arow[kk],k) -= Adata[kk]*x(i,k)
triu_above(A, x, i, k, kk) ==
  IF ~(kk < at(A.sp.colind, i + 1) /\ at(A.sp.row, kk) < i) THEN x
  ELSE triu_above(A, subtractAt(x, <<at(A.sp.row, kk), k>>,
                                q_mul(at(A.data, kk), x[<<i, k>>])),
                  i, k, kk + 1)

triu_rhs(A, x, i, k) ==
  IF k >= size2(x.dim) THEN x
  ELSE IF <<i, k>> \notin DOMAIN x.e THEN triu_rhs(A, x, i, k + 1)
  ELSE triu_rhs(A, [x EXCEPT !.e =
                      triu_above(A, divideAt(x.e, <<i, k>>, q_elem(A, i, i)),
                                 i, k, at(A.sp.colind, i))],
                i, k + 1)

\* the columns i, i-1, ... backwards
triu_cols(A, x, i) ==
  IF i < 0 THEN x ELSE triu_cols(A, triu_rhs(A, x, i, 0), i - 1)

\* the matrix x = b as its stored entries, and back
working(b) == [dim |-> b, e |-> entries(b)]
stored(x) == fromEntries(size1(x.dim), size2(x.dim), x.e)

\* forward substitution (lines 911-927) and backward substitution (928-944)
forward(A, b) == stored(tril_cols(A, working(b), 0))
backward(A, b) == stored(triu_cols(A, working(b), size2(A) - 1))

\* Matrix::hasNonStructuralZeros: an entry is stored and is zero
hasNonStructuralZeros(A) == \E k \in 1..Len(A.data) : q_isZero(A.data[k])

\* the stored entries of A that are not zero
nonzeroEntries(A) ==
  [p \in {q \in Positions(A.sp) : ~q_isZero(q_elem(A, q[1], q[2]))} |->
     q_elem(A, p[1], p[2])]

\* sparsify that removes nothing
sparsify_kept(A) == A

\* Matrix::sparsify
sparsify(A) == fromEntries(size1(A), size2(A), nonzeroEntries(A))

\* the permutation taken for its own inverse
inverted_same(colperm) == colperm

\* inv_colperm[colperm[k]] = k
inverted(colperm) ==
  [i \in 1..Len(colperm) |-> (CHOOSE k \in 1..Len(colperm) : colperm[k] = i - 1) - 1]

\* x = xperm(inv_colperm, ALL)
unpermuted(xperm, colperm) == sub(xperm, inverted(colperm), allCols(xperm))

\* adj(a)/det(a) entry by entry, for a matrix a of whole numbers
inv_entries(a, N, d) ==
  [p \in Positions(N.sp) |-> q_div(whole(elem(N, p[1], p[2])), whole(d))]

\* inv(a) of a matrix of fractions n/1
inv_fractions(a) ==
  fromEntries(size1(a), size2(a),
              inv_entries(a, adj(integers(a)).val, det(integers(a)).val))

\* two permutations of 0..n-1: the identity and the rotation
identityOf(n) == [k \in 1..n |-> k - 1]
rotationOf(n) == [k \in 1..n |-> k % n]
SomePermutations(n) == {identityOf(n), rotationOf(n)}

\* Sparsity::dulmageMendelsohn: the row and column permutations it may return
dulmageMendelsohn(sp) == SomePermutations(sp.size1) \X SomePermutations(sp.size2)
\* ------------------------------------------------------------------ solve calls
\* A program that calls solve(A, b): last.calls is the stack of the calls of
\* solve that have not returned, last.ret the value the innermost finished
\* call returned, last.path the branches taken so far.

MaxRhs == 2          \* columns of the right hand side b

\* a call solve(A, b) that has not yet chosen its branch
Entry(A, b) == [A |-> A, b |-> b, wait |-> FALSE, colperm |-> <<>>, then |-> ""]

SolveInput(A, b) ==
  [act |-> "input", fn |-> "solve", A |-> A, B |-> b, calls |-> <<>>,
   path |-> <<>>, ret |-> <<>>, out |-> Ok(<<>>)]

Top == last.calls[Len(last.calls)]
Entered == last.act = "solve" /\ last.calls # <<>> /\ ~Top.wait
Valid == Entered /\ solve(Top.A, Top.b).err = ""
NotTriangular == Valid /\ ~isTril(Top.A) /\ ~isTriu(Top.A)
General == NotTriangular /\ ~hasNonStructuralZeros(Top.A)

Aperm(rowperm, colperm) == sub(Top.A, rowperm, colperm)
bperm(rowperm) == sub(Top.b, rowperm, allCols(Top.b))

SolveMachine(rec) ==
  /\ last' = rec
  /\ UNCHANGED <<heap, icache, rcache, handles, simp, dfree>>

\* the innermost call returns x from the branch named label
Returns(x, label) ==
  SolveMachine([last EXCEPT !.calls = SubSeq(@, 1, Len(@) - 1), !.ret = x,
                       !.path = Append(@, label)])

\* the innermost call calls solve(A, b) and will apply then to its result
Recurses(A, b, then, colperm, label) ==
  SolveMachine([last EXCEPT
             !.calls = Append([@ EXCEPT ![Len(@)] =
                                 [@ EXCEPT !.wait = TRUE, !.then = then,
                                           !.colperm = colperm]],
                              Entry(A, b)),
             !.path = Append(@, label)])

\* the program calls solve(A, b)
SolveCall ==
  /\ last.act = "input"
  /\ SolveMachine([last EXCEPT !.act = "solve",
                          !.calls = <<Entry(fractions(last.A), fractions(last.B))>>])

\* lines 908-909: the call throws, and so does every call waiting for it
SolveThrow ==
  /\ Entered /\ solve(Top.A, Top.b).err # ""
  /\ SolveMachine([last EXCEPT !.act = "done", !.calls = <<>>,
                          !.out = solve(Top.A, Top.b),
                          !.path = Append(@, "throw")])

\* lines 911-927
SolveForward ==
  Valid /\ isTril(Top.A) /\ Returns(forward(Top.A, Top.b), "forward")

\* lines 928-944
SolveBackward ==
  /\ Valid /\ ~isTril(Top.A) /\ isTriu(Top.A)
  /\ Returns(backward(Top.A, Top.b), "backward")

\* lines 945-950
SolveSparsify ==
  /\ NotTriangular /\ hasNonStructuralZeros(Top.A)
  /\ Recurses(sparsify(Top.A), Top.b, "same", <<>>, "sparsify")

\* lines 966-970: the permuted system is lower triangular
SolvePermutedBy(rowperm, colperm) ==
  /\ isTril(Aperm(rowperm, colperm))
  /\ Recurses(Aperm(rowperm, colperm), bperm(rowperm), "unpermute", colperm,
              "permuted")

\* lines 972-975: xperm = mul(inv(Aperm), bperm), which lines 988-995 permute
\* back
SolveInverseBy(rowperm, colperm) ==
  /\ ~isTril(Aperm(rowperm, colperm))
  /\ size2(Top.A) <= 3
  /\ SolveMachine([last EXCEPT
                !.calls = [@ EXCEPT ![Len(@)] =
                             [@ EXCEPT !.wait = TRUE, !.then = "unpermute",
                                       !.colperm = colperm]],
                !.ret = q_matmul(inv_fractions(Aperm(rowperm, colperm)),
                                 bperm(rowperm)),
                !.path = Append(@, "inverse")])

\* lines 976-985: Q and R of the permuted system, then
\* solve(R, mul(Q.T(), bperm))
SolveQrBy(rowperm, colperm) ==
  /\ ~isTril(Aperm(rowperm, colperm))
  /\ ~(size2(Top.A) <= 3)
  /\ Recurses(qr_factors(Aperm(rowperm, colperm)).R,
              q_matmul(T(qr_factors(Aperm(rowperm, colperm)).Q), bperm(rowperm)),
              "unpermute", colperm, "qr")

\* lines 951-957: the permutations of the BLT transformation of A
SolvePermuted ==
  General /\ \E pair \in dulmageMendelsohn(Top.A.sp) :
               SolvePermutedBy(pair[1], pair[2])

SolveInverse ==
  General /\ \E pair \in dulmageMendelsohn(Top.A.sp) :
               SolveInverseBy(pair[1], pair[2])

SolveQr ==
  General /\ \E pair \in dulmageMendelsohn(Top.A.sp) :
               SolveQrBy(pair[1], pair[2])

\* the call that waited gets the result of the call it made: lines 950 and
\* 988-995
SolveReturn ==
  /\ last.act = "solve" /\ last.calls # <<>> /\ Top.wait
  /\ Returns(IF Top.then = "unpermute" THEN unpermuted(last.ret, Top.colperm)
             ELSE last.ret,
             "return")

\* the outermost call has returned
SolveDone ==
  /\ last.act = "solve" /\ last.fn = "solve" /\ last.calls = <<>>
  /\ SolveMachine([last EXCEPT !.act = "done", !.out = Ok(last.ret)])

\* pinv(A) of a matrix with at least as many columns as rows calls
\* solve(mul(A, A.T()), A), and of any other matrix solve(mul(A.T(), A), A.T())
pinv_system(A) ==
  IF size2(A) >= size1(A) THEN mul(A, T(A)).val ELSE mul(T(A), A).val
pinv_rhs(A) == IF size2(A) >= size1(A) THEN A ELSE T(A)

\* pinv that returns what solve returned
pinv_result_same(A, x) == x

\* the value of pinv(A) from the x that solve returned: .T() in the first case
pinv_result(A, x) == IF size2(A) >= size1(A) THEN T(x) ELSE x

\* the program calls pinv(A), which calls solve; B holds the matrix of the
\* system
PinvCall ==
  /\ last.act = "input"
  /\ SolveMachine([last EXCEPT
                     !.act = "solve", !.fn = "pinv",
                     !.calls = <<Entry(fractions(pinv_system(last.A)),
                                       fractions(pinv_rhs(last.A)))>>])

\* solve has returned to pinv, which returns
PinvDone ==
  /\ last.act = "solve" /\ last.fn = "pinv" /\ last.calls = <<>>
  /\ SolveMachine([last EXCEPT !.act = "done",
                                !.out = Ok(pinv_result(last.A, last.ret))])

\* the entries of the systems A by row and column: without a zero, and with
\* three zeros
SolveTables ==
  { <<<<2, -1, 3>>, <<-1, 2, -1>>, <<5, -1, 2>>>>,
    <<<<1, 0, 2>>, <<3, 1, 0>>, <<0, 2, 1>>>> }

\* the matrix of pattern S with the entries of the table t
Tabled(nrow, ncol, S, t) ==
  fromEntries(nrow, ncol, [p \in S |-> t[p[1] + 1][p[2] + 1]])

\* systems of four unknowns: columns that are orthogonal to each other
LargeSystems ==
  { <<<<1, 1, 1, 1>>, <<1, -1, 1, -1>>, <<1, 1, -1, -1>>, <<1, -1, -1, 1>>>>,
    <<<<3, -4, 0, 0>>, <<4, 3, 0, 0>>, <<0, 0, 3, 4>>, <<0, 0, -4, 3>>>>,
    <<<<0, 2, 0, 0>>, <<0, 0, 0, 3>>, <<1, 0, 0, 0>>, <<0, 0, 5, 0>>>> }
NonzeroPositions(t) == {p \in (0..3) \X (0..3) : t[p[1] + 1][p[2] + 1] # 0}

\* the right hand sides of nrow rows given to a triangular system: none, one
\* column of any pattern, and two columns of which the second is dense
Columns(nrow, k) ==
  IF k < 2 THEN PatternsOf(nrow, k)
  ELSE {S \cup ((0..(nrow - 1)) \X {1}) : S \in PatternsOf(nrow, 1)}

\* triangular systems of every pattern, with the right hand sides Columns
InitTri ==
  /\ SXStart
  /\ \E n \in 0..MaxN :
       \E S \in PatternsOf(n, n), t \in SolveTables :
         /\ (\A p \in S : p[1] >= p[2]) \/ (\A p \in S : p[1] <= p[2])
         /\ \E k \in 0..MaxRhs :
              \E S2 \in Columns(n, k) :
                last = SolveInput(Tabled(n, n, S, t), LabelledB(n, k, S2))

NextTri == SolveCall \/ SolveForward \/ SolveBackward \/ SolveDone

SpecTri == InitTri /\ [][NextTri]_vars

\* systems of every pattern with one dense right hand side, systems of four
\* unknowns, and calls whose dimensions do not agree
InitSolve ==
  /\ SXStart
  /\ \/ \E n \in 0..MaxN :
          \E S \in PatternsOf(n, n), t \in SolveTables :
            last = SolveInput(Tabled(n, n, S, t), ones(n, 1))
     \/ \E t \in LargeSystems :
          \E S2 \in PatternsOf(4, 1) :
            last = SolveInput(Tabled(4, 4, NonzeroPositions(t), t), LabelledB(4, 1, S2))
     \/ \E d \in (1..MaxRows) \X (0..MaxCols) :
          \E nrow \in 0..MaxRows :
            last = SolveInput(ones(d[1], d[2]), ones(nrow, 1))

NextSolve ==
  \/ SolveCall
  \/ SolveThrow
  \/ SolveForward
  \/ SolveBackward
  \/ SolveSparsify
  \/ SolvePermuted
  \/ SolveInverse
  \/ SolveQr
  \/ SolveReturn
  \/ SolveDone

\* the matrices given to pinv: every pattern of up to MaxN rows and columns
\* with at most MaxRows rows or at most MaxRows columns, and the patterns of
\* MaxN rows and columns that leave the first row blank
InitPinv ==
  /\ SXStart
  /\ \E d \in (0..MaxN) \X (0..MaxN) :
       \E S \in PatternsOf(d[1], d[2]), t \in SolveTables :
         /\ d[1] <= MaxRows \/ d[2] <= MaxRows \/ \A p \in S : p[1] # 0
         /\ last = SolveInput(Tabled(d[1], d[2], S, t), emptyMatrix)

\* the system of pinv is symmetric and its dimensions agree: the calls of
\* solve neither throw nor substitute backwards
NextPinv ==
  \/ PinvCall
  \/ SolveForward
  \/ SolveSparsify
  \/ SolvePermuted
  \/ SolveInverse
  \/ SolveReturn
  \/ PinvDone

SpecPinv == InitPinv /\ [][NextPinv]_vars

SpecSolve == InitSolve /\ [][NextSolve]_vars

\* ------------------------------------------------------------------ addMultiple
RECURSIVE addMultiple_els(_, _, _, _, _, _), addMultiple_cols(_, _, _, _, _)

\* for(int el=colind[i]; el<colind[i+1]; ++el): the scalar product is added to
\* res[row[el]] if trans_A, to res[i] otherwise
addMultiple_els(A, v, res, trans_A, i, el) ==
  IF ~(el < at(A.sp.colind, i + 1)) THEN res
  ELSE addMultiple_els(A, v,
         IF trans_A
         THEN [res EXCEPT ![at(A.sp.row, el) + 1] = @ + at(v, i) * at(A.data, el)]
         ELSE [res EXCEPT ![i + 1] = @ + at(v, at(A.sp.row, el)) * at(A.data, el)],
         trans_A, i, el + 1)

\* for(int i=0; i<d1; ++i) with d1 = A.size2()
addMultiple_cols(A, v, res, trans_A, i) ==
  IF ~(i < size2(A)) THEN res
  ELSE addMultiple_cols(A, v,
                        addMultiple_els(A, v, res, trans_A, i, at(A.sp.colind, i)),
                        trans_A, i + 1)

\* addMultiple(A, v, res, trans_A): the value of res on return
addMultiple(A, v, res, trans_A) ==
  IF trans_A /\ ~(Len(v) = size2(A)) THEN Fail("v.size()==d1")
  ELSE IF trans_A /\ ~(Len(res) = size1(A)) THEN Fail("res.size()==d2")
  ELSE IF ~trans_A /\ ~(Len(v) = size1(A)) THEN Fail("v.size()==d2")
  ELSE IF ~trans_A /\ ~(Len(res) = size2(A)) THEN Fail("res.size()==d1")
  ELSE Ok(addMultiple_cols(A, v, res, trans_A, 0))

\* the vectors v and res of n entries given to addMultiple
VectorV(n) == [k \in 1..n |-> 2 * k + 1]
VectorRes(n) == [k \in 1..n |-> 100 * k]

InitAdd ==
  /\ SXStart
  /\ \E d \in (0..MaxRows) \X (0..MaxCols) :
       \E S \in PatternsOf(d[1], d[2]) :
         last = Input(Labelled(d[1], d[2], S), emptyMatrix)

\* addMultiple(A, v, res, trans_A)
AddMultiple(v, res, trans_A) ==
  Outcome("addMultiple", <<v, res, trans_A>>, addMultiple(last.A, v, res, trans_A))

NextAdd ==
  \E n, m \in 0..MaxCols, trans_A \in BOOLEAN :
     AddMultiple(VectorV(n), VectorRes(m), trans_A)

SpecAdd == InitAdd /\ [][NextAdd]_vars

\* ------------------------------------------------------------------ claims

\* the node operator of an operator function
OpOf(act) ==
  CASE act = "plus" -> "ADD"
    [] act = "minus" -> "SUB"
    [] act = "times" -> "MUL"
    [] act = "rdivide" -> "DIV"
    [] OTHER -> ""

\* the doubles with an integer value: the even halves and 2^32
IntegerValued(v) == (v.t = "fin" /\ v.h % 2 = 0) \/ v.t = "big"

\* the singleton a literal must resolve to, 0 when it has none
SingletonOf(v) ==
  CASE v = Fin(0) -> ZERO
    [] v = Fin(2) -> ONE
    [] v = Fin(4) -> TWO
    [] v = Fin(-2) -> MINUS_ONE
    [] v = NaN -> NAN
    [] v = PInf -> INF
    [] v = MInf -> MINUS_INF
    [] OTHER -> 0

\* C1: after a handle is made from a literal, every live handle made from
\* the same literal references the same node; 0, 1, 2, -1, NaN, +Inf and -Inf
\* resolve to their singleton, every other integer-valued double to a node of
\* the integer cache and every other double to a node of the real cache.
C1_LiteralRouting ==
  last.act = "literal" =>
    /\ Live(heap, last.r)
    /\ \A h \in Handles :
         (Usable(h) /\ isConstant(heap, handles[h])
            /\ getValue(heap, handles[h]) = last.v) => handles[h] = last.r
    /\ SingletonOf(last.v) # 0 => last.r = SingletonOf(last.v)
    /\ (SingletonOf(last.v) = 0 /\ IntegerValued(last.v)) =>
         /\ heap[last.r].k = "IntegerSX"
         /\ \E e \in icache : e[2] = last.r
    /\ (SingletonOf(last.v) = 0 /\ ~IntegerValued(last.v)) =>
         /\ heap[last.r].k = "RealtypeSX"
         /\ <<last.v, last.r>> \in rcache

\* the handles referencing node n: user handles, child handles of live nodes
\* and the static member of a singleton
Refs(n) ==
  Cardinality({h \in Handles : handles[h] = n})
  + Cardinality({m \in NodeIds : Live(heap, m) /\ heap[m].d0 = n})
  + Cardinality({m \in NodeIds : Live(heap, m) /\ heap[m].d1 = n})
  + (IF n \in Singletons THEN 1 ELSE 0)

\* C2: the count of every live node is the number of handles referencing it,
\* no node was deleted twice, no constructed handle references a deleted
\* node, and no node is left allocated with count zero.
C2_RefCount ==
  /\ dfree = 0
  /\ \A h \in Handles : handles[h] # 0 => Live(heap, handles[h])
  /\ \A n \in NodeIds :
       Live(heap, n) => (heap[n].count = Refs(n) /\ heap[n].count > 0)

\* C3: each of the seven singleton nodes is allocated and its count is at
\* least 1 in every state.
C3_SingletonsRooted ==
  \A n \in Singletons : Live(heap, n) /\ heap[n].count >= 1

\* C3 witness: an assignment took the last user handle from a singleton,
\* which remains with count 1.
C3_Witness ==
  /\ last.act = "assign" /\ last.a \in Singletons /\ last.a # last.b
  /\ heap[last.a].count = 1
  /\ \A h \in Handles : handles[h] # last.a

\* C4: an assignment between handles of the same node changes nothing; any
\* other decrements the old node (deleting it when that was its last
\* reference) and increments the source's node, and afterwards the handle
\* references the source's node, which is live.  The source may be a child
\* handle stored inside the old node.
C4_Assignment ==
  [][last'.act \in {"assign", "assign_dep"} =>
       LET a == last'.a
           b == last'.b
       IN IF a = b
          THEN heap' = heap /\ icache' = icache /\ rcache' = rcache
          ELSE /\ last'.r = b
               /\ Live(heap', b)
               /\ heap'[b].count >= 1
               /\ heap[a].count > 1 =>
                    /\ Live(heap', a)
                    /\ heap'[a].count = heap[a].count - 1
                    /\ heap'[b].count = heap[b].count + 1
               /\ heap[a].count = 1 => ~Live(heap', a)]_vars

\* (x + 0) * 1 - x, evaluated on node x
TimesOne(R) == zz_times(R.m, R.r, ONE)
MinusNode(R, x) == zz_minus(R.m, R.r, x)
Composite(M, x) == MinusNode(TimesOne(zz_plus(M, x, ZERO)), x)
\* the result R is the node of the literal 0 and nothing was allocated for it
IsLiteralZero(R) == R.r = SXElement_double(R.m, Fin(0)).r /\ R.m.nalloc = 0

\* C5: with simplification on, x + 0 and 0 + x return the node of x, x * 1
\* and 1 * x return the node of x, x - x returns the 0 singleton, and for a
\* symbol x the expression (x + 0) * 1 - x is the node of the literal 0.
C5_Identities ==
  simp =>
    /\ (last.act = "plus" /\ last.b = ZERO) => last.r = last.a
    /\ (last.act = "plus" /\ last.a = ZERO) => last.r = last.b
    /\ (last.act = "times" /\ last.b = ONE) => last.r = last.a
    /\ (last.act = "times" /\ last.a = ONE) => last.r = last.b
    /\ (last.act = "minus" /\ last.a = last.b) => last.r = ZERO
    /\ \A h \in Handles :
         (Usable(h) /\ isSymbolic(heap, handles[h])) =>
           IsLiteralZero(Composite(Cur(0), handles[h]))

\* C5 witness: an expression with operands was multiplied by 1 and came back
\* as the same node.
C5_Witness ==
  /\ simp /\ last.act = "times" /\ last.b = ONE
  /\ hasDep(heap, last.a) /\ last.r = last.a

\* C6 as amended: with simplification on, x / x returns the 1 singleton for
\* every operand x other than the constant 0, for which it returns the NaN
\* singleton, and x / 1 returns the node of x.
C6_Division ==
  simp =>
    /\ (last.act = "rdivide" /\ last.a = last.b /\ last.a # ZERO) => last.r = ONE
    /\ (last.act = "rdivide" /\ last.a = last.b /\ last.a = ZERO) => last.r = NAN
    /\ (last.act = "rdivide" /\ last.b = ONE) => last.r = last.a

\* C6 as stated: x / x returns the 1 singleton for every operand x, any
\* constant included, and x / 1 returns the node of x.
C6_Original ==
  simp =>
    /\ (last.act = "rdivide" /\ last.a = last.b) => last.r = ONE
    /\ (last.act = "rdivide" /\ last.b = ONE) => last.r = last.a

\* C6 witness: the constant 0 was divided by itself and the NaN singleton
\* came back.
C6_Witness ==
  simp /\ last.act = "rdivide" /\ last.a = ZERO /\ last.b = ZERO /\ last.r = NAN

\* C7: with the switch off, each of the four operators returns what
\* BinarySX::create returns for its operator and the two operands: for
\* operands not both constant one new binary node holding exactly them; in
\* particular x + 0 for a symbol x is not the node of x.
ReturnedAs(R) ==
  /\ last.r = R.r
  /\ last.rn = [R.m.heap[R.r] EXCEPT !.count = 0]
  /\ last.n = R.m.nalloc
C8_NegationSwitchOff ==
  (~simp /\ last.act = "neg" /\ ~isConstant(heap, last.a)) =>
    /\ last.rn = MkNode("UnarySX", Fin(0), "NEG", last.a, 0)
    /\ last.n = 1

\* C9: with simplification on, no call of add, sub, mul or div allocates two
\* or more nodes.
C9_AtMostOneNode ==
  (simp /\ last.act \in ArithOps) => last.n <= 1

\* the largest number of handle comparisons a call at this depth can make
MaxComparisons(depth) == IF depth <= 0 THEN 1 ELSE 2 ^ (depth + 1) - 1

\* C10: is_equal is true for handles of the same node at every depth, false
\* for different nodes at depth 0 or below, at a positive depth the result of
\* the node-level comparison at that depth, and the comparisons one call makes
\* are bounded by a function of the depth alone.
C10_IsEqual ==
  last.act = "is_equal" =>
    /\ last.a = last.b => last.res
    /\ (last.a # last.b /\ last.depth <= 0) => ~last.res
    /\ (last.a # last.b /\ last.depth > 0) =>
         last.res = node_is_equal(heap, last.a, last.b, last.depth)
    /\ last.n <= MaxComparisons(last.depth)

\* C10 witness: two different nodes with the same operator and child compared
\* unequal at depth 0.
C10_Witness ==
  /\ last.act = "is_equal" /\ last.depth = 0 /\ last.a # last.b
  /\ ~last.res
  /\ node_is_equal(heap, last.a, last.b, 1)

\* C11: __nonzero__ returns (value != 0) on a constant node and raises an
\* error on every non-constant node (symbol, unary, binary); the call changes
\* no node count and no handle.
C11_Nonzero ==
  [][last'.act \in {"nonzero", "nonzero_error"} =>
       /\ heap' = heap /\ handles' = handles
       /\ isConstant(heap, last'.a) =>
            last'.act = "nonzero" /\ last'.res = ~deq(getValue(heap, last'.a), Fin(0))
       /\ (isSymbolic(heap, last'.a) \/ hasDep(heap, last'.a)) =>
            last'.act = "nonzero_error"
       /\ isConstant(heap, last'.a) \/ isSymbolic(heap, last'.a)
            \/ hasDep(heap, last'.a)]_vars

\* the error was raised for a binary expression
C11_Witness == last.act = "nonzero_error" /\ heap[last.a].k = "BinarySX"

\* an offset list that starts at 0, does not decrease and ends within dim
ValidOffsets(offset, dim) ==
  /\ Len(offset) >= 1
  /\ offset[1] = 0
  /\ offset[Len(offset)] <= dim
  /\ \A i, j \in 1..Len(offset) : i < j => offset[i] <= offset[j]

\* C13: horzsplit(v, offset) fails when the offset list is empty, does not
\* start at 0, ends beyond the columns of v or is not monotone, and succeeds
\* otherwise; vertsplit does so with the rows of v, blocksplit with both.
C13_SplitOffsets ==
  /\ last.act = "horzsplit" =>
       (last.out.err = "" <=> ValidOffsets(last.arg, size2(last.A)))
  /\ last.act = "vertsplit" =>
       (last.out.err = "" <=> ValidOffsets(last.arg, size1(last.A)))
  /\ last.act = "blocksplit" =>
       (last.out.err = "" <=> /\ ValidOffsets(last.arg[1], size1(last.A))
                              /\ ValidOffsets(last.arg[2], size2(last.A)))

\* a list that decreases was rejected, and one that repeats an offset accepted
C13_Witness ==
  /\ last.act = "horzsplit" /\ size2(last.A) = 3 /\ size(last.A) > 0
  /\ \/ last.arg = <<0, 2, 1>> /\ last.out.err # ""
     \/ last.arg = <<0, 1, 1>> /\ last.out.err = ""

\* the joined pieces of a split
Rejoined == last.back.err = "" /\ last.back.val = last.A

\* C14: with valid offsets, horzcat(horzsplit(M, O)), vertcat(vertsplit(M, O))
\* and blockcat(blocksplit(M, Ov, Oh)) are M: same dimensions, same sparsity
\* pattern, same sequence of nonzeros.
C14_RoundTrip ==
  /\ (last.act = "horzsplit" /\ ValidOffsets(last.arg, size2(last.A))) => Rejoined
  /\ (last.act = "vertsplit" /\ ValidOffsets(last.arg, size1(last.A))) => Rejoined
  /\ (last.act = "blocksplit" /\ ValidOffsets(last.arg[1], size1(last.A))
        /\ ValidOffsets(last.arg[2], size2(last.A))) => Rejoined

\* a sparse matrix was cut into four blocks, each with a stored entry, and
\* joined again
C14_Witness ==
  /\ last.act = "blocksplit" /\ last.arg = <<(<<0, 1>>), (<<0, 2>>)>>
  /\ size1(last.A) = 2 /\ size2(last.A) = 3
  /\ size(last.A) < 6
  /\ last.out.err = ""
  /\ \A i, j \in 1..2 : size(last.out.val[i][j]) > 0
  /\ Rejoined

\* the groups of incr consecutive columns of v, the last possibly narrower
ColumnGroups(v, incr) ==
  [i \in 1..((size2(v) + incr - 1) \div incr) |->
     horzsplit_piece(v, (i - 1) * incr,
                     IF i * incr <= size2(v) THEN i * incr ELSE size2(v))]
RowGroups(v, incr) == transposeAll(ColumnGroups(T(v), incr))

\* C15: for every matrix v, zero columns included, and every incr >= 1,
\* horzsplit(v, incr) succeeds, returns the groups of incr consecutive columns
\* and horzcat of them is v; likewise vertsplit(v, incr) over rows; incr < 1
\* fails.
C15_IncrementSplit ==
  /\ (last.act = "horzsplit_incr" /\ last.arg >= 1) =>
       /\ last.out.err = ""
       /\ last.out.val = ColumnGroups(last.A, last.arg)
       /\ Rejoined
  /\ (last.act = "vertsplit_incr" /\ last.arg >= 1) =>
       /\ last.out.err = ""
       /\ last.out.val = RowGroups(last.A, last.arg)
       /\ Rejoined
  /\ (last.act \in {"horzsplit_incr", "vertsplit_incr"} /\ last.arg < 1) =>
       last.out.err # ""

\* the piece of v that holds its columns from to upto-1
ColumnsOf(v, from, upto) ==
  fromEntries(size1(v), upto - from,
              [p \in {<<q[1], q[2] - from>> :
                        q \in {q \in Positions(v.sp) : from <= q[2] /\ q[2] < upto}} |->
                 elem(v, p[1], p[2] + from)])

\* C16: horzsplit(v, offset) with valid offsets returns one sub-matrix per
\* offset: piece i has the rows of v and holds exactly its columns
\* [offset[i], offset[i+1]), row indices and data in order, and the final
\* piece holds the columns from offset.back() to the last column of v.
C16_Pieces ==
  (last.act = "horzsplit" /\ ValidOffsets(last.arg, size2(last.A))) =>
     /\ last.out.err = ""
     /\ Len(last.out.val) = Len(last.arg)
     /\ \A i \in 1..Len(last.arg) :
          last.out.val[i] =
            ColumnsOf(last.A, last.arg[i],
                      IF i < Len(last.arg) THEN last.arg[i + 1] ELSE size2(last.A))

RECURSIVE TotalColumns(_, _)
TotalColumns(pieces, i) ==
  IF i > Len(pieces) THEN 0 ELSE size2(pieces[i]) + TotalColumns(pieces, i + 1)

\* C16 as stated: with an explicit offset list there is one piece per interval
\* between consecutive offsets and no piece holds a column at or beyond
\* offset.back()
C16_Original ==
  (last.act = "horzsplit" /\ ValidOffsets(last.arg, size2(last.A))) =>
     /\ last.out.err = ""
     /\ Len(last.out.val) = Len(last.arg) - 1
     /\ TotalColumns(last.out.val, 1) = last.arg[Len(last.arg)]

\* a matrix of three columns split at 0 and 1: the second piece holds the
\* stored entries of columns 1 and 2
C16_Witness ==
  /\ last.act = "horzsplit" /\ last.arg = <<0, 1>>
  /\ size2(last.A) = 3 /\ size1(last.A) = 2
  /\ last.out.err = ""
  /\ size2(last.out.val[2]) = 2 /\ size(last.out.val[2]) >= 2
  /\ size(last.out.val[1]) >= 1

\* the stored entries of A and of B together, for disjoint patterns
EntriesOfBoth(A, B) ==
  [p \in Positions(A.sp) \cup Positions(B.sp) |->
     IF p \in Positions(A.sp) THEN elem(A, p[1], p[2]) ELSE elem(B, p[1], p[2])]

IsFromB(x) == x >= 100
IsFromA(x) == x < 100

\* C17: reshape(x, sp) returns x when sp is the sparsity of x, fails when sp
\* has another number of nonzeros than x, and otherwise returns the matrix of
\* sparsity sp with the data sequence of x; reshape(a, nrow, ncol) keeps the
\* data sequence too; every result has as many data as its sparsity has
\* nonzeros.
C17_Reshape ==
  /\ last.act = "reshape_sp" =>
       /\ last.B.sp = last.A.sp => last.out = Ok(last.A)
       /\ Len(last.B.sp.row) # size(last.A) => last.out.err # ""
       /\ (last.B.sp # last.A.sp /\ Len(last.B.sp.row) = size(last.A)) =>
            last.out = Ok(Matrix(last.B.sp, last.A.data))
  /\ (last.act = "reshape" /\ last.out.err = "") =>
       /\ last.out.val.data = last.A.data
       /\ size1(last.out.val) = last.arg[1] /\ size2(last.out.val) = last.arg[2]
  /\ (last.act \in {"reshape", "reshape_sp"} /\ last.out.err = "") =>
       Len(last.out.val.data) = Len(last.out.val.sp.row)

\* a matrix with two stored entries took a pattern of another shape
C17_Witness ==
  /\ last.act = "reshape_sp" /\ last.out.err = ""
  /\ size(last.A) = 2 /\ size1(last.B) # size1(last.A)
  /\ last.out.val.sp = last.B.sp /\ last.out.val.data = last.A.data

\* C18: unite(A, B) throws when a position belongs to both patterns; for
\* disjoint patterns it returns the matrix over the united pattern that holds
\* at each position the entry of A or of B, the entries of each taken in their
\* own order and each used once (nnz = nnz(A) + nnz(B)).
C18_Unite ==
  last.act = "unite" =>
    /\ Positions(last.A.sp) \cap Positions(last.B.sp) # {} => last.out.err # ""
    /\ Positions(last.A.sp) \cap Positions(last.B.sp) = {} =>
         /\ last.out = Ok(fromEntries(size1(last.A), size2(last.A),
                                      EntriesOfBoth(last.A, last.B)))
         /\ size(last.out.val) = size(last.A) + size(last.B)
         /\ SelectSeq(last.out.val.data, IsFromA) = last.A.data
         /\ SelectSeq(last.out.val.data, IsFromB) = last.B.data

\* two interleaved patterns were united
C18_Witness ==
  /\ last.act = "unite" /\ last.out.err = ""
  /\ size(last.A) = 2 /\ size(last.B) = 2
  /\ IsFromB(at(last.out.val.data, 0)) /\ IsFromA(at(last.out.val.data, 1))

IsSquare(A) == size1(A) = size2(A)
Rejected == last.out.err # ""

C19_Sums ==
  /\ last.act = "sumAll" =>
       /\ last.out.val = last.back.val
       /\ size(last.A) = 0 => last.out.val = sparse(1, 1)
  /\ last.act \in {"sumCols", "sumRows"} => last.out = last.back

RECURSIVE SumOver(_, _)
\* the sum of the numbers f[x], x in S
SumOver(S, f) ==
  IF S = {} THEN 0
  ELSE f[CHOOSE x \in S : TRUE]
       + SumOver(S \ {CHOOSE x \in S : TRUE}, f)

RECURSIVE ProductTo(_, _, _)
\* the product of A(i, s[i+1]) for i below n
ProductTo(A, s, n) ==
  IF n = 0 THEN 1 ELSE elem(A, n - 1, s[n] - 1) * ProductTo(A, s, n - 1)

\* the sign of a permutation of 1..n
SignOf(s) ==
  IF Cardinality({ij \in (DOMAIN s) \X (DOMAIN s) :
                    ij[1] < ij[2] /\ s[ij[1]] > s[ij[2]]}) % 2 = 0
  THEN 1 ELSE -1

\* the Leibniz formula of the determinant
Leibniz(A) ==
  SumOver(Permutations(1..size2(A)),
          [s \in Permutations(1..size2(A)) |-> SignOf(s) * ProductTo(A, s, size2(A))])

\* C20: det of a square matrix of order at most 3, whatever its sparsity, is
\* the Leibniz determinant: the entry for 1x1, a00*a11 - a01*a10 for 2x2, and
\* for 3x3 the value of the cofactor expansion along every row and column.
C20_Determinant ==
  last.act = "det" =>
    /\ last.out = Ok(Leibniz(last.A))
    /\ size2(last.A) = 1 => last.out.val = elem(last.A, 0, 0)
    /\ size2(last.A) = 2 =>
         last.out.val = elem(last.A, 0, 0) * elem(last.A, 1, 1)
                        - elem(last.A, 0, 1) * elem(last.A, 1, 0)
    /\ size2(last.A) >= 2 =>
         \A l \in 0..(size2(last.A) - 1) :
            /\ expand_along_row(last.A, l) = last.out.val
            /\ expand_along_col(last.A, l) = last.out.val

\* a 3x3 matrix with structural zeros, no blank row, and a determinant other
\* than 0 was expanded along a column
C20_Witness ==
  /\ last.act = "det" /\ size2(last.A) = 3 /\ size(last.A) < 9
  /\ isDense(row_count(last.A))
  /\ min_row(last.A) > min_col(last.A)
  /\ last.out.err = "" /\ last.out.val # 0

\* the determinant of A without its row j and its column i, 1 for a 1x1 A
MinorOf(A, i, j) ==
  IF size2(A) = 1 THEN 1 ELSE Leibniz(minorMatrix(A, i, j))

\* (-1)^(i+j)
SignAt(i, j) == IF (i + j) % 2 = 0 THEN 1 ELSE -1

\* entry (i,j) of the product A * R
ProductAt(A, R, i, j) == elem(mul(A, R).val, i, j)

\* R is the adjugate of A, entry by entry and in its sparsity
IsAdjugate(A, R) ==
  /\ size1(R) = size2(A) /\ size2(R) = size2(A)
  /\ \A i, j \in 0..(size2(A) - 1) :
       /\ elem(R, i, j) = SignAt(i, j) * MinorOf(A, i, j)
       /\ hasNZ(R, i, j) <=> MinorOf(A, i, j) # 0
       /\ ProductAt(A, R, i, j) = (IF i = j THEN Leibniz(A) ELSE 0)

\* C21: adj(A)(i,j) is (-1)^(i+j) times the determinant of A without row j
\* and column i (1 for a 1x1 A), stored only where it is not 0, and A * adj(A)
\* is det(A) times the identity; inv(A) is adj(A) over det(A).
C21_Adjugate ==
  /\ last.act = "adj" => (last.out.err = "" /\ IsAdjugate(last.A, last.out.val))
  /\ last.act = "inv" =>
       /\ last.out.err = ""
       /\ IsAdjugate(last.A, last.out.val.adj)
       /\ last.out.val.det = Leibniz(last.A)

\* the adjugate of a dense 3x3 matrix with a determinant other than 0 has a
\* structural zero, and a stored entry that its transpose has not
C21_Witness ==
  /\ last.act = "adj" /\ size2(last.A) = 3 /\ isDense(last.A)
  /\ Leibniz(last.A) # 0
  /\ ~isDense(last.out.val)
  /\ \E i, j \in 0..2 : hasNZ(last.out.val, i, j) /\ ~hasNZ(last.out.val, j, i)

\* every diagonal entry of the matrix of integers A is stored and is not 0
NonzeroDiagonal(A) ==
  \A i \in 0..(size2(A) - 1) : hasNZ(A, i, i) /\ elem(A, i, i) # 0

\* A * x = b entry by entry, for x of fractions and A, b of integers
IsSolution(A, x, b) ==
  /\ size1(x) = size1(b) /\ size2(x) = size2(b)
  /\ \A i \in 0..(size1(b) - 1), k \in 0..(size2(b) - 1) :
       q_elem(q_matmul(fractions(A), x), i, k) = whole(elem(b, i, k))

\* an entry of x is stored when it is stored in b or when a stored entry of x
\* in a row processed before it meets a stored entry of A in its column
FilledForwards(A, x, b) ==
  \A j \in 0..(size1(b) - 1), k \in 0..(size2(b) - 1) :
     hasNZ(x, j, k) <=>
       (hasNZ(b, j, k) \/ \E i \in 0..(j - 1) : hasNZ(x, i, k) /\ hasNZ(A, j, i))
FilledBackwards(A, x, b) ==
  \A j \in 0..(size1(b) - 1), k \in 0..(size2(b) - 1) :
     hasNZ(x, j, k) <=>
       (hasNZ(b, j, k) \/
        \E i \in (j + 1)..(size1(b) - 1) : hasNZ(x, i, k) /\ hasNZ(A, j, i))

Solved == last.act = "done" /\ last.out.err = ""

\* C22: for a lower triangular A with a nonzero diagonal solve(A, b) is the
\* forward substitution: A*x = b exactly, and an entry of x is stored only if
\* it is stored in b or was updated from a stored entry of x; for an upper
\* triangular A that is not lower triangular it is the backward substitution.
C22_Triangular ==
  (Solved /\ NonzeroDiagonal(last.A)) =>
    /\ isTril(last.A) =>
         /\ last.path = <<"forward">>
         /\ IsSolution(last.A, last.out.val, last.B)
         /\ FilledForwards(last.A, last.out.val, last.B)
    /\ (isTriu(last.A) /\ ~isTril(last.A)) =>
         /\ last.path = <<"backward">>
         /\ IsSolution(last.A, last.out.val, last.B)
         /\ FilledBackwards(last.A, last.out.val, last.B)

\* a lower triangular system of three unknowns and two right hand sides was
\* solved: an entry of x that b does not store was filled in, another stayed
\* a structural zero, and an entry of x is not a whole number
C22_Witness ==
  /\ Solved /\ NonzeroDiagonal(last.A) /\ isTril(last.A)
  /\ size2(last.A) = 3 /\ size2(last.B) = 2 /\ size(last.A) > 3
  /\ \E j \in 0..2 : hasNZ(last.out.val, j, 0) /\ ~hasNZ(last.B, j, 0)
  /\ \E j \in 0..2 : ~hasNZ(last.out.val, j, 0)
  /\ \E k \in 1..Len(last.out.val.data) : last.out.val.data[k][2] > 1

Wide(A) == size2(A) >= size1(A)

\* P is the identity of order n
IsIdentity(P, n) ==
  /\ size1(P) = n /\ size2(P) = n
  /\ \A i, j \in 0..(n - 1) : q_elem(P, i, j) = whole(IF i = j THEN 1 ELSE 0)

\* pinv has just called solve(M, b): M is A*A^T and b is A for a wide A, M is
\* A^T*A and b is A^T for a tall one, and solve accepts their dimensions
PinvSystem(A, M, b) ==
  /\ solve(M, b).err = ""
  /\ Wide(A) =>
       /\ b = fractions(A)
       /\ size1(M) = size1(A) /\ size2(M) = size1(A)
       /\ \A i, j \in 0..(size1(A) - 1) :
            q_elem(M, i, j) = whole(dot(A, T(A), i, j, 0))
  /\ ~Wide(A) =>
       /\ b = fractions(T(A))
       /\ size1(M) = size2(A) /\ size2(M) = size2(A)
       /\ \A i, j \in 0..(size2(A) - 1) :
            q_elem(M, i, j) = whole(dot(T(A), A, i, j, 0))

\* pinv has returned X for A, and solve had returned x to it
PinvResult(A, X, x) ==
  /\ size1(X) = size2(A) /\ size2(X) = size1(A)
  /\ X = (IF Wide(A) THEN T(x) ELSE x)

\* A * X = I for a wide A, X * A = I for a tall A
PinvIdentity(A, X) ==
  IF Wide(A) THEN IsIdentity(q_matmul(fractions(A), X), size1(A))
  ELSE IsIdentity(q_matmul(X, fractions(A)), size2(A))

PinvCalled == last.fn = "pinv" /\ last.act = "solve" /\ last.path = <<>>
PinvReturned == last.fn = "pinv" /\ last.act = "done"

RECURSIVE RowTimes(_, _, _, _)
\* the sum of A(i,j) * v[j] over the columns j, j+1, ...
RowTimes(A, v, i, j) ==
  IF j >= size2(A) THEN 0 ELSE elem(A, i, j) * at(v, j) + RowTimes(A, v, i, j + 1)

\* out is res + A*v, for v of A.size2() entries and res of A.size1() entries
AddsProduct(A, v, res, out) ==
  /\ (out.err = "") <=> (Len(v) = size2(A) /\ Len(res) = size1(A))
  /\ out.err = "" =>
       out.val = [k \in 1..Len(res) |-> res[k] + RowTimes(A, v, k - 1, 0)]

\* C24: addMultiple(A, v, res) with trans_A = false is res += mul(A, v), for
\* v of A.size2() entries and res of A.size1() entries, and with trans_A =
\* true it is res += mul(A.T(), v); it throws for every other size.
C24_AddMultiple ==
  last.act = "addMultiple" =>
    /\ ~last.arg[3] => AddsProduct(last.A, last.arg[1], last.arg[2], last.out)
    /\ last.arg[3] => AddsProduct(T(last.A), last.arg[1], last.arg[2], last.out)

\* what the code does: the two cases the other way round
C24_Swapped ==
  last.act = "addMultiple" =>
    /\ last.arg[3] => AddsProduct(last.A, last.arg[1], last.arg[2], last.out)
    /\ ~last.arg[3] => AddsProduct(T(last.A), last.arg[1], last.arg[2], last.out)

\* the number of entries stored in row j, in column i
CountInRow(A, j) == Cardinality({p \in Positions(A.sp) : p[1] = j})
CountInCol(A, i) == Cardinality({p \in Positions(A.sp) : p[2] = i})
Lines(A) == 0..(size2(A) - 1)
BlankRow(A) == \E j \in Lines(A) : CountInRow(A, j) = 0
BlankCol(A) == \E i \in Lines(A) : CountInCol(A, i) = 0

\* C25: det of a square matrix of order 3 or more with a structurally blank
\* row or a structurally blank column returns 0 without a call of cofactor.
C25_ShortCircuit ==
  (last.act = "det" /\ size2(last.A) >= 3 /\ (BlankRow(last.A) \/ BlankCol(last.A))) =>
    /\ last.out = Ok(0)
    /\ det_cofactors(last.A) = 0

\* the smallest number of entries stored in a row, in a column
LeastInRows(A) ==
  CHOOSE c \in 0..size2(A) :
    /\ \E j \in Lines(A) : CountInRow(A, j) = c
    /\ \A j \in Lines(A) : CountInRow(A, j) >= c
LeastInCols(A) ==
  CHOOSE c \in 0..size2(A) :
    /\ \E i \in Lines(A) : CountInCol(A, i) = c
    /\ \A i \in Lines(A) : CountInCol(A, i) >= c

\* C26: det of a square matrix of order 3 or more without blank row or column
\* expands along a line with the smallest count of all rows and columns,
\* along a row when the smallest row count is at most the smallest column
\* count, and calls cofactor that many times.
C26_Expansion ==
  (last.act = "det" /\ size2(last.A) >= 3 /\ ~BlankRow(last.A) /\ ~BlankCol(last.A)) =>
    /\ det_along(last.A) =
         (IF LeastInRows(last.A) <= LeastInCols(last.A) THEN "row" ELSE "col")
    /\ det_along(last.A) = "row" =>
         CountInRow(last.A, det_line(last.A)) = LeastInRows(last.A)
    /\ det_along(last.A) = "col" =>
         CountInCol(last.A, det_line(last.A)) = LeastInCols(last.A)
    /\ det_cofactors(last.A) =
         (IF LeastInRows(last.A) <= LeastInCols(last.A) THEN LeastInRows(last.A)
          ELSE LeastInCols(last.A))

RECURSIVE Residual(_, _, _, _, _)
\* column i of A less its projections on the columns l < j of Q for which
\* R(l,i) is stored
Residual(A, Q, R, i, j) ==
  IF j = 0 THEN column(A, i)
  ELSE IF hasNZ(R, j - 1, i)
    THEN minus(Residual(A, Q, R, i, j - 1),
               scaled(column(Q, j - 1), q_elem(R, j - 1, i)))
  ELSE Residual(A, Q, R, i, j - 1)

\* the inner product of two columns of m rows, and whether it is stored
InnerProduct(x, y) == q_elem(q_matmul(T(x), y), 0, 0)
Overlap(x, y) == \E p \in Positions(x.sp) : p \in Positions(y.sp)

\* r is the 2-norm of the column x, where that is a fraction
IsNorm(r, x) ==
  q_isNaR(r) \/ (r[1] >= 0 /\ q_mul(r, r) = sumSquares(x.data, 0))

\* column i of the factors F of A was made by modified Gram-Schmidt
QrColumn(A, F, i) ==
  /\ \A j \in 0..(i - 1) :
       /\ F.operands[i + 1][j + 1] = Residual(A, F.Q, F.R, i, j)
       /\ q_elem(F.R, j, i) = InnerProduct(Residual(A, F.Q, F.R, i, j), column(F.Q, j))
       /\ hasNZ(F.R, j, i) <=> Overlap(Residual(A, F.Q, F.R, i, j), column(F.Q, j))
  /\ hasNZ(F.R, i, i)
  /\ IsNorm(q_elem(F.R, i, i), Residual(A, F.Q, F.R, i, i))
  /\ column(F.Q, i) = divided(Residual(A, F.Q, F.R, i, i), q_elem(F.R, i, i))

\* the dimensions of the factors F of an m x n matrix
QrShape(F, m, n) ==
  /\ size1(F.Q) = m /\ size2(F.Q) = n
  /\ size1(F.R) = n /\ size2(F.R) = n
  /\ isTriu(F.R)

\* C27: qr of an m x n matrix, m >= n, makes column i by modified
\* Gram-Schmidt: R(j,i), j < i, is the inner product of column j of Q with
\* the residual of column i after the projections on the columns before j,
\* a projection is subtracted only when R(j,i) is stored, R(i,i) is the
\* 2-norm of the final residual; Q is m x n and R is n x n and upper
\* triangular.
C27_Qr ==
  (last.act = "qr" /\ size1(last.A) >= size2(last.A)) =>
    /\ last.out.err = ""
    /\ \A i \in 0..(size2(last.A) - 1) : QrColumn(fractions(last.A), last.out.val, i)
    /\ QrShape(last.out.val, size1(last.A), size2(last.A))

\* the statement of C27 for the matrices that have a column
QrOfColumns ==
  (last.act = "qr" /\ size1(last.A) >= size2(last.A) /\ size2(last.A) > 0) =>
    /\ last.out.err = ""
    /\ \A i \in 0..(size2(last.A) - 1) : QrColumn(fractions(last.A), last.out.val, i)
    /\ QrShape(last.out.val, size1(last.A), size2(last.A))

\* the branch the order of C28 gives a system A
Branch(A) ==
  IF isTril(A) THEN "forward"
  ELSE IF isTriu(A) THEN "backward"
  ELSE IF hasNonStructuralZeros(A) THEN "sparsify"
  ELSE "permute"

\* the way the permuted system P of n unknowns is solved
PermutedBranch(P, n) ==
  IF isTril(P) THEN "permuted" ELSE IF n <= 3 THEN "inverse" ELSE "qr"

\* the branch taken by the step, and the calls before and after it
Chosen == last'.path[Len(last'.path)]
CallerOfStep == last'.calls[Len(last.calls)]
CalleeOfStep == last'.calls[Len(last'.calls)]
CallsSolve == Len(last'.calls) = Len(last.calls) + 1
Waits(colperm) ==
  CallerOfStep.wait /\ CallerOfStep.then = "unpermute" /\ CallerOfStep.colperm = colperm

\* a valid call takes one branch, the first of the order that applies
TakesBranch ==
  (Valid /\ last' # last) =>
    /\ Len(last'.path) = Len(last.path) + 1
    /\ Branch(Top.A) = "forward" =>
         Chosen = "forward" /\ Len(last'.calls) = Len(last.calls) - 1
    /\ Branch(Top.A) = "backward" =>
         Chosen = "backward" /\ Len(last'.calls) = Len(last.calls) - 1
    /\ Branch(Top.A) = "sparsify" =>
         /\ Chosen = "sparsify" /\ CallsSolve
         /\ CalleeOfStep.A = sparsify(Top.A) /\ CalleeOfStep.b = Top.b
         /\ CallerOfStep.wait /\ CallerOfStep.then = "same"
    /\ Branch(Top.A) = "permute" =>
         \E pair \in dulmageMendelsohn(Top.A.sp) :
           /\ Chosen = PermutedBranch(Aperm(pair[1], pair[2]), size2(Top.A))
           /\ Waits(pair[2])
           /\ Chosen = "permuted" =>
                /\ CallsSolve /\ CalleeOfStep.A = Aperm(pair[1], pair[2])
                /\ CalleeOfStep.b = bperm(pair[1]) /\ Branch(CalleeOfStep.A) = "forward"
           /\ Chosen = "inverse" => Len(last'.calls) = Len(last.calls)
           /\ Chosen = "qr" =>
                /\ CallsSolve /\ Branch(CalleeOfStep.A) \in {"forward", "backward"}
                /\ size1(CalleeOfStep.A) = size1(CalleeOfStep.b)

\* a call that waited for the permuted solution xperm returns the x with
\* x[colperm[k]] = xperm[k]
UndoesColperm ==
  (last.act = "solve" /\ last.calls # <<>> /\ Top.wait /\ Top.then = "unpermute") =>
    /\ size1(last'.ret) = size1(last.ret) /\ size2(last'.ret) = size2(last.ret)
    /\ \A k \in 1..Len(Top.colperm), c \in 0..(size2(last.ret) - 1) :
         /\ hasNZ(last'.ret, Top.colperm[k], c) = hasNZ(last.ret, k - 1, c)
         /\ q_elem(last'.ret, Top.colperm[k], c) = q_elem(last.ret, k - 1, c)

Follows(k, labels) == k < Len(last.path) /\ last.path[k + 1] \in labels

\* the call made by the sparsify branch is on a matrix without stored zeros,
\* and takes another branch
RetriesOnce ==
  /\ \A k \in 1..Len(last.path) :
       last.path[k] = "sparsify" => (k = Len(last.path) \/ ~Follows(k, {"sparsify"}))
  /\ (last.calls # <<>> /\ last.path # <<>> /\
      last.path[Len(last.path)] = "sparsify") => ~hasNonStructuralZeros(Top.A)

\* the call made on the permuted system or on the factor R is answered by a
\* substitution, which calls nothing
ResolvedBySubstitution ==
  /\ \A k \in 1..Len(last.path) :
       last.path[k] \in {"permuted", "qr"} =>
         (k = Len(last.path) \/ Follows(k, {"forward", "backward"}))
  /\ \A k \in 1..Len(last.path) :
       last.path[k] \in {"forward", "backward", "inverse"} =>
         (k = Len(last.path) \/ Follows(k, {"return"}))
  /\ Len(last.calls) <= 3

RECURSIVE FramesLeft(_, _)

\* the steps a call that has not chosen its branch can still take: one for a
\* throw or a substitution, three for the permuted system (the branch, the
\* substitution of the call it makes, its own return) and five for sparsify
StepsOfCall(f) ==
  IF solve(f.A, f.b).err # "" THEN 1
  ELSE IF Branch(f.A) \in {"forward", "backward"} THEN 1
  ELSE IF Branch(f.A) = "permute" THEN 3
  ELSE 5

\* the steps left to the calls k, k+1, ... of the stack: a call that waits
\* has its return left
FramesLeft(calls, k) ==
  IF k > Len(calls) THEN 0
  ELSE (IF calls[k].wait THEN 1 ELSE StepsOfCall(calls[k])) + FramesLeft(calls, k + 1)

\* a bound on the steps left to the program
StepsLeft(rec) ==
  IF rec.act = "done" THEN 0
  ELSE IF rec.act = "input" THEN 7
  ELSE 1 + FramesLeft(rec.calls, 1)

\* a program that has not finished can take a step
CanStep ==
  \/ last.act \in {"input", "done"}
  \/ last.act = "solve" /\ last.calls = <<>>
  \/ last.act = "solve" /\ last.calls # <<>> /\ Top.wait
  \/ Entered /\ ~Valid
  \/ Valid /\ Branch(Top.A) \in {"forward", "backward", "sparsify"}
  \/ General /\ dulmageMendelsohn(Top.A.sp) # {}

\* C29: every call of solve returns or throws: each step lowers a bound on
\* the steps left and a step is possible until the program has finished; the
\* sparsify branch is never taken twice in a row, and the calls made by the
\* permuted branch are answered by a forward or backward substitution that
\* calls nothing.
C29_Terminates ==
  /\ []RetriesOnce
  /\ []ResolvedBySubstitution
  /\ []CanStep
  /\ [][StepsLeft(last') < StepsLeft(last)]_vars

\* a system with a stored zero has returned after sparsify, the permuted
\* branch and the forward substitution of the permuted system
C29_Witness ==
  /\ Solved /\ hasNonStructuralZeros(fractions(last.A))
  /\ last.path = <<"sparsify", "permuted", "forward", "return", "return">>

\* the call passes on operands with fewer levels in all than it was given
Smaller(c) == c.now < c.was

\* the call of zz_times with its two operands exchanged, the constant first
Swap(c) ==
  /\ c.fn = "zz_times" /\ c.a = c.y /\ c.b = c.x
  /\ c.constant_first /\ ~c.constant_second

Swaps(calls) == {k \in 1..Len(calls) : Swap(calls[k])}

\* the calls an operator made came to an end: each passed on smaller
\* operands or was the swap, which happened once at most
ChainEnds(calls, given) ==
  /\ \A k \in 1..Len(calls) : Smaller(calls[k]) \/ Swap(calls[k])
  /\ \A k \in 1..Len(calls) : Swap(calls[k]) => calls[k].now = calls[k].was
  /\ Cardinality(Swaps(calls)) <= 1
  /\ Len(calls) <= 2 * given + 1

\* a node that is there before and after a step keeps its kind, value,
\* operator and children
KeepsNodes ==
  \A n \in NodeIds :
    (Live(heap, n) /\ Live(heap', n)) =>
      heap'[n] = [heap[n] EXCEPT !.count = heap'[n].count]

\* C30: add, sub, mul, div and the negation end for every pair of operands
\* and change no node that exists: each call they make of zz_plus, zz_minus,
\* zz_times, zz_rdivide, operator-, inv or sq is on operands with fewer levels
\* in all, but for the one swap of zz_times that puts the constant first.
C30_Redispatch ==
  /\ [](last.act \in ArithOps \cup {"neg"} =>
          ChainEnds(last.calls, levels(heap, last.a) + levels(heap, last.b)))
  /\ [][KeepsNodes]_vars

\* a product of a negation and a constant: the swap, then the product of the
\* constant and the negated expression, then the negation of the result
C30_Witness ==
  /\ last.act = "times" /\ Len(last.calls) = 3
  /\ Swap(last.calls[1]) /\ isOp(heap, last.a, "NEG")
  /\ last.calls[2].fn = "zz_times" /\ Smaller(last.calls[2])
  /\ last.calls[3].fn = "operator-" /\ last.rn.op = "NEG"

====
